---------------------------- MODULE Spec2Model ----------------------------
(***************************************************************************)
(* A model of sftp_sync: the pattern matcher (sftp_sync/filter.py) and the *)
(* one-way synchronisation run (sftp_sync/syncer.py).                      *)
(*                                                                         *)
(* Strings are sequences of one-character strings, so that the path        *)
(* arithmetic of the code (os.path.join, os.path.dirname, str.split, the   *)
(* ".backup" suffix, fnmatch) is computed and not assumed.                 *)
(***************************************************************************)
EXTENDS Integers, Sequences, FiniteSets, TLC

VARIABLES
    \* ---- FileFilter under test (filter.py) ----
    flt,            \* the FileFilter object: its two pattern lists, or NoFilter
    flt_path,       \* the argument of the last should_include call
    flt_result,     \* what that call returned (NoResult before the first call)
    flt_args,       \* history: the arguments the FileFilter was constructed with
    \* ---- SFTPSyncer (syncer.py) ----
    config,         \* SFTPSyncer.config
    stats,          \* SFTPSyncer.stats
    pc,             \* where sync() is: "idle", "files", "finish", "done", "failed"
    local_tree,     \* the regular files under local_dir, in the order os.walk meets them
    files_to_sync,  \* the local variable files_to_sync of sync()
    idx,            \* how many candidates the loop of sync() has processed
    remote,         \* the remote filesystem behind sftp_client: path -> entry
    now,            \* the server's clock, stamped on what put writes
    ops,            \* history: every remote operation issued in the current run
    run,            \* number of sync() invocations started so far
    budget,         \* environment: requests the transport may still fail
    remote0,        \* history: the remote filesystem when the current run began
    reports,        \* history: the final counters of every finished run
    \* ---- SFTPSyncer._get_local_files (syncer.py) ----
    local_fs,       \* the local filesystem under local_dir: inode -> directory entries
    wpc,            \* where the enumeration is: "off", "walk", "filter", "done"
    walk_stack,     \* the directories os.walk has still to yield, next one first
    visited_inodes, \* the local variable visited_inodes
    walk_files,     \* the local variable files of _get_local_files
    warnings,       \* history: the warnings logged by the enumeration
    traversed,      \* history: the directories whose entries were processed
    \* ---- a unit called on its own (Config, _ensure_remote_dir) ----
    call,           \* history: the calls made so far, each with what it returned
    \* ---- the task registry of the web API (web_api.py) ----
    sync_tasks,     \* the global sync_tasks: task_id -> SyncStatus
    bg,             \* the background tasks: run_sync_task executions and where they are
    clock           \* datetime.now(), in seconds

filterVars == <<flt, flt_path, flt_result, flt_args>>
walkVars == <<local_fs, wpc, walk_stack, visited_inodes, walk_files, warnings, traversed>>
restVars == <<call, sync_tasks, bg, clock>>
syncVars == <<config, stats, pc, local_tree, files_to_sync, idx, remote, now, ops, run,
              budget, remote0, reports>>
vars == <<flt, flt_path, flt_result, flt_args, config, stats, pc, local_tree,
          files_to_sync, idx,
          remote, now, ops, run, budget, remote0, reports,
          local_fs, wpc, walk_stack, visited_inodes, walk_files, warnings, traversed,
          call, sync_tasks, bg, clock>>

(***************************************************************************)
(* Strings                                                                 *)
(***************************************************************************)
None == "None"

\* os.sep on the POSIX hosts the tool is run on
os_sep == "/"

\* str.replace(old, new) for a one-character old and new
RECURSIVE replace(_, _, _)
replace(s, old, new) ==
    IF s = <<>> THEN <<>>
    ELSE <<IF Head(s) = old THEN new ELSE Head(s)>> \o replace(Tail(s), old, new)

\* str.split("/"): the segments between the separators (never an empty list)
RECURSIVE split(_, _)
split(s, sep) ==
    IF \A i \in 1..Len(s) : s[i] # sep THEN <<s>>
    ELSE LET i == CHOOSE k \in 1..Len(s) :
                      s[k] = sep /\ \A j \in 1..(k - 1) : s[j] # sep
         IN <<SubSeq(s, 1, i - 1)>> \o split(SubSeq(s, i + 1, Len(s)), sep)

\* "/".join(parts)
RECURSIVE join(_, _)
join(sep, parts) ==
    IF parts = <<>> THEN <<>>
    ELSE IF Len(parts) = 1 THEN parts[1]
    ELSE parts[1] \o <<sep>> \o join(sep, Tail(parts))

(***************************************************************************)
(* fnmatch.fnmatch on POSIX (normcase is the identity there): the pattern  *)
(* is translated to a regular expression in which "*" is ".*" and "?" is   *)
(* "." under DOTALL, matched against the whole name.  Patterns here carry  *)
(* no "[" (character classes are outside the alphabet of the model).       *)
(***************************************************************************)
RECURSIVE fnmatch(_, _)
fnmatch(name, pat) ==
    IF pat = <<>> THEN name = <<>>
    ELSE IF Head(pat) = "*"
         THEN \/ fnmatch(name, Tail(pat))
              \/ (name # <<>> /\ fnmatch(Tail(name), pat))
    ELSE IF Head(pat) = "?"
         THEN name # <<>> /\ fnmatch(Tail(name), Tail(pat))
    ELSE name # <<>> /\ Head(name) = Head(pat) /\ fnmatch(Tail(name), Tail(pat))

(***************************************************************************)
(* FileFilter (filter.py)                                                  *)
(***************************************************************************)
Star == <<"*">>

\* an optional list argument: NoList is Python's None
NoList == [given |-> FALSE, list |-> <<>>]
List(l) == [given |-> TRUE, list |-> l]

\* Python's "x or default": the default for None and for an empty list
Or(x, default) == IF ~x.given \/ x.list = <<>> THEN default ELSE x.list

\* the constructor keeping the lists as they were given
FileFilter_NoDefault(include_patterns, exclude_patterns) ==
    [include_patterns |-> include_patterns.list,
     exclude_patterns |-> exclude_patterns.list]

\* FileFilter.__init__
FileFilter(include_patterns, exclude_patterns) ==
    [include_patterns |-> Or(include_patterns, <<Star>>),
     exclude_patterns |-> Or(exclude_patterns, <<>>)]

\* FileFilter._match_pattern: direct match, then every suffix of the split
\* path, then every prefix of it
_match_pattern(path, pattern0) ==
    LET pattern == replace(pattern0, os_sep, "/")
        path_parts == split(path, "/")
        n == Len(path_parts)
    IN \/ fnmatch(path, pattern)
       \/ \E i \in 1..n : fnmatch(join("/", SubSeq(path_parts, i, n)), pattern)
       \/ \E i \in 1..n : fnmatch(join("/", SubSeq(path_parts, 1, i)), pattern)

\* should_include with the include patterns consulted first
should_include_IncludeFirst(self, path0) ==
    LET path == replace(path0, os_sep, "/") IN
    IF \E k \in 1..Len(self.include_patterns) :
           _match_pattern(path, self.include_patterns[k])
    THEN TRUE
    ELSE IF \E k \in 1..Len(self.exclude_patterns) :
                _match_pattern(path, self.exclude_patterns[k])
    THEN FALSE
    ELSE IF self.include_patterns # <<>> /\ self.include_patterns # <<Star>>
    THEN FALSE
    ELSE TRUE

\* should_include without the rejection of what no include pattern matches
should_include_NoRestrict(self, path0) ==
    LET path == replace(path0, os_sep, "/") IN
    IF \E k \in 1..Len(self.exclude_patterns) :
           _match_pattern(path, self.exclude_patterns[k])
    THEN FALSE
    ELSE TRUE

\* FileFilter.should_include
should_include(self, path0) ==
    LET path == replace(path0, os_sep, "/") IN
    IF \E k \in 1..Len(self.exclude_patterns) :
           _match_pattern(path, self.exclude_patterns[k])
    THEN FALSE
    ELSE IF \E k \in 1..Len(self.include_patterns) :
                _match_pattern(path, self.include_patterns[k])
    THEN TRUE
    ELSE IF self.include_patterns # <<>> /\ self.include_patterns # <<Star>>
    THEN FALSE
    ELSE TRUE

\* FileFilter.filter_files
RECURSIVE filter_files(_, _)
filter_files(self, files) ==
    IF files = <<>> THEN <<>>
    ELSE (IF should_include(self, Head(files)) THEN <<Head(files)>> ELSE <<>>)
         \o filter_files(self, Tail(files))

(***************************************************************************)
(* Inputs of the pattern matcher: the paths and patterns of the test suite *)
(* (tests/test_filter.py) and every path of at most MaxDepth segments over *)
(* SegNames, with pattern lists of at most MaxPatterns patterns.           *)
(***************************************************************************)
MaxDepth == 3
MaxPatterns == 1

S_main_py == <<"m", "a", "i", "n", ".", "p", "y">>   \* "main.py"
S_test_main_py == <<"t", "e", "s", "t", "_", "m", "a", "i", "n", ".", "p", "y">>   \* "test_main.py"
S_star_py == <<"*", ".", "p", "y">>   \* "*.py"
S_test_star_py == <<"t", "e", "s", "t", "_", "*", ".", "p", "y">>   \* "test_*.py"
S_git == <<".", "g", "i", "t">>   \* ".git"
S_node_modules == <<"n", "o", "d", "e", "_", "m", "o", "d", "u", "l", "e", "s">>   \* "node_modules"
S_git_config == <<".", "g", "i", "t", "/", "c", "o", "n", "f", "i", "g">>   \* ".git/config"
S_node_pkg_index == <<"n", "o", "d", "e", "_", "m", "o", "d", "u", "l", "e", "s", "/", "p", "k", "g", "/", "i", "n", "d", "e", "x", ".", "j", "s">>   \* "node_modules/pkg/index.js"
S_src_main_py == <<"s", "r", "c", "/", "m", "a", "i", "n", ".", "p", "y">>   \* "src/main.py"
S_src_git_config == <<"s", "r", "c", "/", ".", "g", "i", "t", "/", "c", "o", "n", "f", "i", "g">>   \* "src/.git/config"
S_deep_git == <<"a", "/", "b", "/", ".", "g", "i", "t", "/", "x", "/", "y">>   \* "a/b/.git/x/y"
S_src_git == <<"s", "r", "c", "/", ".", "g", "i", "t">>   \* "src/.git"
S_star_txt == <<"*", ".", "t", "x", "t">>   \* "*.txt"
S_test_py == <<"t", "e", "s", "t", ".", "p", "y">>   \* "test.py"
S_data_txt == <<"d", "a", "t", "a", ".", "t", "x", "t">>   \* "data.txt"
S_image_png == <<"i", "m", "a", "g", "e", ".", "p", "n", "g">>   \* "image.png"

SegNames == {<<"a">>, <<"n">>, <<"n", "n">>}

RECURSIVE PathsOfDepth(_)
PathsOfDepth(d) ==
    IF d = 1 THEN SegNames
    ELSE {p \o <<"/">> \o s : p \in PathsOfDepth(d - 1), s \in SegNames}

FilterPaths ==
    UNION {PathsOfDepth(d) : d \in 1..MaxDepth}
    \cup {S_main_py, S_test_main_py, S_git_config, S_node_pkg_index,
          S_src_main_py, S_src_git_config, S_deep_git, S_src_git,
          S_test_py, S_data_txt, S_image_png}

IncludePool == {Star, <<"n">>, <<"a", "/", "*">>}
ExcludePool == {<<"n">>, <<"?">>, <<"a", "/", "n">>, <<"n", "*">>}

ListsOver(pool) == UNION {[1..k -> pool] : k \in 0..MaxPatterns}

IncludeLists ==
    {NoList} \cup {List(l) : l \in ListsOver(IncludePool)
                                   \cup {<<S_star_py>>, <<S_star_py, S_star_txt>>}}
ExcludeLists ==
    {NoList} \cup {List(l) : l \in ListsOver(ExcludePool)
                                   \cup {<<S_test_star_py>>, <<S_git, S_node_modules>>,
                                         <<S_git>>}}

\* no FileFilter constructed yet (a constructed one has an include pattern)
NoFilter == [include_patterns |-> <<>>, exclude_patterns |-> <<>>]
\* no call made yet; after a call flt_result is <<the value returned>>
NoResult == <<>>

\* no enumeration of local files is under way
NoWalk ==
    /\ local_fs = <<>>
    /\ wpc = "off"
    /\ walk_stack = <<>>
    /\ visited_inodes = {}
    /\ walk_files = <<>>
    /\ warnings = <<>>
    /\ traversed = <<>>

\* no unit was called on its own and the web API holds no task
NoRest ==
    /\ call = <<>>
    /\ sync_tasks = <<>>
    /\ bg = <<>>
    /\ clock = 0

\* a FileFilter is constructed
NewFilter ==
    /\ flt = NoFilter
    /\ \E inc \in IncludeLists, exc \in ExcludeLists :
          /\ flt' = FileFilter(inc, exc)
          /\ flt_args' = <<inc, exc>>
    /\ UNCHANGED <<flt_path, flt_result>>
    /\ UNCHANGED syncVars
    /\ UNCHANGED walkVars
    /\ UNCHANGED restVars

\* should_include is called on it (it leaves the filter as it is, so one
\* call per behaviour shows every call)
CallShouldInclude ==
    /\ flt # NoFilter
    /\ flt_result = NoResult
    /\ \E p \in FilterPaths :
          /\ flt_path' = p
          /\ flt_result' = <<should_include(flt, p)>>
    /\ UNCHANGED <<flt, flt_args>>
    /\ UNCHANGED syncVars
    /\ UNCHANGED walkVars
    /\ UNCHANGED restVars

(***************************************************************************)
(* Paths of the synchronisation run (os.path on POSIX)                     *)
(***************************************************************************)
\* os.path.join(a, b)
os_path_join(a, b) ==
    IF b # <<>> /\ Head(b) = "/" THEN b
    ELSE IF a = <<>> \/ a[Len(a)] = "/" THEN a \o b
    ELSE a \o <<"/">> \o b

\* str.rstrip("/")
RECURSIVE rstrip(_, _)
rstrip(s, ch) ==
    IF s # <<>> /\ s[Len(s)] = ch THEN rstrip(SubSeq(s, 1, Len(s) - 1), ch) ELSE s

\* os.path.dirname(p): everything up to the last "/", trailing slashes
\* stripped unless the head is nothing but slashes
os_path_dirname(p) ==
    LET slashes == {k \in 1..Len(p) : p[k] = "/"}
        i == IF slashes = {} THEN 0
             ELSE CHOOSE k \in slashes : \A j \in slashes : j <= k
        head == SubSeq(p, 1, i)
    IN IF head # <<>> /\ \E k \in 1..Len(head) : head[k] # "/"
       THEN rstrip(head, "/") ELSE head

\* the suffix _backup_remote_file appends: f"{remote_path}.backup"
BackupSuffix == <<".", "b", "a", "c", "k", "u", "p">>
backup_path_of(remote_path) == remote_path \o BackupSuffix

(***************************************************************************)
(* The local tree.  Every local file has a content, a size, a modification *)
(* time and permission bits; the run never changes them.                   *)
(***************************************************************************)
F_a == <<"a">>
F_a_backup == backup_path_of(F_a)
F_d_b == <<"d", "/", "b">>
F_c == <<"c">>
F_d_e == <<"d", "/", "e">>

LocalPaths == {F_a, F_a_backup, F_d_b}

local_stat(rel_path) ==
    [st_size  |-> IF rel_path = F_a_backup THEN 2 ELSE 1,
     st_mtime |-> 1,
     st_mode  |-> IF rel_path = F_d_b THEN 4 ELSE 6,
     data     |-> <<"local", rel_path>>]

(***************************************************************************)
(* The remote filesystem behind the SFTP session: a function from the      *)
(* paths that exist to their entries.  Every operation takes and returns a *)
(* context c: the filesystem c.fs, the operations issued so far c.ops, the *)
(* positions c.faults (in c.ops) at which the transport fails, the pending *)
(* exception c.exc, the value returned c.ret and the counters c.stats.     *)
(* An operation started with an exception pending does nothing: that is    *)
(* how a raise skips the rest of a block.                                  *)
(***************************************************************************)
IOError == "IOError"
FileNotFoundError == "FileNotFoundError"

Dir == [isdir |-> TRUE, st_size |-> 0, st_mtime |-> 0, st_mode |-> 7, data |-> <<>>]
File(data, size, mtime, mode) ==
    [isdir |-> FALSE, st_size |-> size, st_mtime |-> mtime, st_mode |-> mode,
     data |-> data]

\* the mode a file created by put gets from the server
ServerMode == 6

Exists(fs, p) == p \in DOMAIN fs
IsDir(fs, p) == Exists(fs, p) /\ fs[p].isdir
\* the directory a path lives in exists ("" is the session's working directory)
ParentOk(fs, p) == os_path_dirname(p) = <<>> \/ IsDir(fs, os_path_dirname(p))
Without(fs, p) == [q \in DOMAIN fs \ {p} |-> fs[q]]
With(fs, p, e) == [q \in DOMAIN fs \cup {p} |-> IF q = p THEN e ELSE fs[q]]

\* one remote request: logged with its outcome and with what was at the
\* path when it was issued (old: <<>> or <<the entry>>); the transport fails
\* it when its position is in c.faults, else the server answers err (None:
\* success) and the filesystem becomes fs2
Request(c, op, path, err, fs2, ret) ==
    IF c.exc # None THEN c
    ELSE LET k == Len(c.ops) + 1
             e == IF k \in c.faults THEN IOError ELSE err
         IN [c EXCEPT !.ops = Append(@, [op |-> op, path |-> path, res |-> e,
                                         phase |-> c.phase,
                                         old |-> IF Exists(c.fs, path)
                                                 THEN <<c.fs[path]>> ELSE <<>>]),
                      !.exc = e,
                      !.fs = IF e = None THEN fs2 ELSE @,
                      !.ret = IF e = None THEN ret ELSE None]

sftp_stat(c, p) ==
    Request(c, "stat", p,
            IF Exists(c.fs, p) THEN None ELSE FileNotFoundError,
            c.fs, IF Exists(c.fs, p) THEN c.fs[p] ELSE None)

sftp_mkdir(c, p) ==
    Request(c, "mkdir", p,
            IF Exists(c.fs, p) THEN IOError
            ELSE IF ~ParentOk(c.fs, p) THEN FileNotFoundError ELSE None,
            With(c.fs, p, Dir), None)

\* put(localpath, remotepath): whole-file transfer, overwriting
sftp_put(c, rel_path, p, t) ==
    Request(c, "put", p,
            IF IsDir(c.fs, p) THEN IOError
            ELSE IF ~ParentOk(c.fs, p) THEN FileNotFoundError ELSE None,
            With(c.fs, p, File(local_stat(rel_path).data, local_stat(rel_path).st_size, t,
                               IF Exists(c.fs, p) THEN c.fs[p].st_mode ELSE ServerMode)),
            None)

sftp_chmod(c, p, mode) ==
    Request(c, "chmod", p,
            IF Exists(c.fs, p) THEN None ELSE FileNotFoundError,
            IF Exists(c.fs, p) THEN With(c.fs, p, [c.fs[p] EXCEPT !.st_mode = mode])
            ELSE c.fs, None)

\* rename fails when the new name is taken (SFTP v3 rename)
sftp_rename(c, old, new) ==
    Request(c, "rename", old,
            IF ~Exists(c.fs, old) THEN FileNotFoundError
            ELSE IF Exists(c.fs, new) \/ ~ParentOk(c.fs, new) THEN IOError ELSE None,
            IF Exists(c.fs, old) THEN With(Without(c.fs, old), new, c.fs[old])
            ELSE c.fs, None)

sftp_remove(c, p) ==
    Request(c, "remove", p,
            IF ~Exists(c.fs, p) THEN FileNotFoundError
            ELSE IF IsDir(c.fs, p) THEN IOError ELSE None,
            Without(c.fs, p), None)

\* the names in a directory, in the order the server lists them
RECURSIVE SetToSeq(_)
SetToSeq(S) ==
    IF S = {} THEN <<>>
    ELSE LET x == CHOOSE y \in S : TRUE IN <<x>> \o SetToSeq(S \ {x})

Children(fs, d) == {q \in DOMAIN fs : q # d /\ os_path_dirname(q) = d}

\* listdir_attr: one item (filename, attributes) per entry of the directory
sftp_listdir_attr(c, d) ==
    Request(c, "listdir_attr", d,
            IF ~Exists(c.fs, d) THEN FileNotFoundError
            ELSE IF ~IsDir(c.fs, d) THEN IOError ELSE None,
            c.fs,
            SetToSeq({[filename |-> SubSeq(q, Len(d) + 2, Len(q)), attr |-> c.fs[q]] :
                      q \in Children(c.fs, d)}))

\* "except <exception>: pass"
Caught(c, which) == IF c.exc \in which THEN [c EXCEPT !.exc = None] ELSE c

(***************************************************************************)
(* SFTPSyncer (syncer.py)                                                  *)
(***************************************************************************)
ZeroStats == [uploaded |-> 0, skipped |-> 0, deleted |-> 0, errors |-> 0]

\* stat.S_IMODE: the permission bits of a mode
S_IMODE(mode) == mode % 8

Range(s) == {s[i] : i \in 1..Len(s)}

\* SFTPSyncer._get_remote_path
_get_remote_path(rel_path) ==
    replace(os_path_join(config.remote_dir, rel_path), os_sep, "/")

\* sequencing: F applied to the value of c, which is computed once
Do(c, F(_)) == CHOOSE r \in {F(x) : x \in {c}} : TRUE

\* SFTPSyncer._ensure_remote_dir
RECURSIVE _ensure_remote_dir(_, _)
_ensure_remote_dir(c, remote_path) ==
    IF c.exc # None THEN c
    ELSE IF remote_path = <<>> \/ remote_path = <<".">> THEN c
    ELSE Do(sftp_stat(c, remote_path), LAMBDA c1 :
         IF c1.exc # FileNotFoundError THEN c1
         ELSE Do(IF os_path_dirname(remote_path) # <<>>
                 THEN _ensure_remote_dir(Caught(c1, {FileNotFoundError}),
                                         os_path_dirname(remote_path))
                 ELSE Caught(c1, {FileNotFoundError}), LAMBDA c2 :
              IF ~config.dry_run THEN sftp_mkdir(c2, remote_path) ELSE c2))

\* SFTPSyncer._backup_remote_file
_backup_remote_file(c, remote_path) ==
    IF c.exc # None THEN c
    ELSE Do(sftp_stat(c, remote_path), LAMBDA c1 :
         IF c1.exc # None \/ config.dry_run THEN Caught(c1, {FileNotFoundError})
         ELSE Do(sftp_remove(c1, backup_path_of(remote_path)), LAMBDA c2 :
              Do(sftp_rename(Caught(c2, {FileNotFoundError}), remote_path,
                             backup_path_of(remote_path)), LAMBDA c3 :
              Caught(c3, {FileNotFoundError}))))

\* the upload counting uploaded also when one of its requests failed
Upload_CountsFailed(c, rel_path, remote_path, t) ==
    Do(IF config.backup_remote THEN _backup_remote_file(c, remote_path) ELSE c,
       LAMBDA c1 :
    Do(IF ~config.dry_run
       THEN Do(_ensure_remote_dir(c1, os_path_dirname(remote_path)), LAMBDA d1 :
            Do(sftp_put(d1, rel_path, remote_path, t), LAMBDA d2 :
            IF config.preserve_permissions
            THEN sftp_chmod(d2, remote_path, S_IMODE(local_stat(rel_path).st_mode))
            ELSE d2))
       ELSE c1, LAMBDA c2 :
    [c2 EXCEPT !.stats.uploaded = @ + 1]))

\* the upload transferring the file before it moves the old one away
Upload_PutBeforeBackup(c, rel_path, remote_path, t) ==
    Do(IF ~config.dry_run
       THEN Do(_ensure_remote_dir(c, os_path_dirname(remote_path)), LAMBDA d1 :
            sftp_put(d1, rel_path, remote_path, t))
       ELSE c, LAMBDA c1 :
    Do(IF config.backup_remote THEN _backup_remote_file(c1, remote_path) ELSE c1,
       LAMBDA c2 :
    Do(IF ~config.dry_run /\ config.preserve_permissions
       THEN sftp_chmod(c2, remote_path, S_IMODE(local_stat(rel_path).st_mode))
       ELSE c2, LAMBDA c3 :
    IF c3.exc # None THEN c3 ELSE [c3 EXCEPT !.stats.uploaded = @ + 1])))

\* the body of "if needs_upload:" in _sync_file
Upload(c, rel_path, remote_path, t) ==
    Do(IF config.backup_remote THEN _backup_remote_file(c, remote_path) ELSE c,
       LAMBDA c1 :
    Do(IF ~config.dry_run
       THEN Do(_ensure_remote_dir(c1, os_path_dirname(remote_path)), LAMBDA d1 :
            Do(sftp_put(d1, rel_path, remote_path, t), LAMBDA d2 :
            IF config.preserve_permissions
            THEN sftp_chmod(d2, remote_path, S_IMODE(local_stat(rel_path).st_mode))
            ELSE d2))
       ELSE c1, LAMBDA c2 :
    IF c2.exc # None THEN c2 ELSE [c2 EXCEPT !.stats.uploaded = @ + 1]))

\* the comparison with a remote copy of the same age taken for out of date
UpToDate_Strict(remote_stat, local) ==
    /\ remote_stat.st_mtime > local.st_mtime
    /\ remote_stat.st_size = local.st_size

\* the comparison of _sync_file: the remote copy is not older and as large
UpToDate(remote_stat, local) ==
    /\ remote_stat.st_mtime >= local.st_mtime
    /\ remote_stat.st_size = local.st_size

\* _sync_file moving the remote file away before it compares
_sync_file_BackupFirst(c, rel_path, t) ==
    Do(IF config.backup_remote
       THEN _backup_remote_file(c, _get_remote_path(rel_path)) ELSE c, LAMBDA c0 :
    Do(sftp_stat(c0, _get_remote_path(rel_path)), LAMBDA c1 :
    IF c1.exc = None /\ UpToDate(c1.ret, local_stat(rel_path))
    THEN [c1 EXCEPT !.stats.skipped = @ + 1]
    ELSE IF c1.exc \notin {None, FileNotFoundError} THEN c1
    ELSE Upload(Caught(c1, {FileNotFoundError}), rel_path,
                _get_remote_path(rel_path), t)))

\* SFTPSyncer._sync_file; t is the time the server stamps on an upload
_sync_file(c, rel_path, t) ==
    Do(sftp_stat(c, _get_remote_path(rel_path)), LAMBDA c1 :
    IF c1.exc = None /\ UpToDate(c1.ret, local_stat(rel_path))
    THEN [c1 EXCEPT !.stats.skipped = @ + 1]
    ELSE IF c1.exc \notin {None, FileNotFoundError} THEN c1
    ELSE Upload(Caught(c1, {FileNotFoundError}), rel_path,
                _get_remote_path(rel_path), t))

RECURSIVE _get_remote_files(_, _, _), ScanItems(_, _, _, _, _)

\* _get_remote_files letting a failed listing propagate
_get_remote_files_Raising(c, dir, prefix) ==
    Do(sftp_listdir_attr(c, dir), LAMBDA c1 :
    IF c1.exc # None THEN [c1 EXCEPT !.ret = <<>>]
    ELSE ScanItems(c1, c1.ret, dir, prefix, <<>>))

\* SFTPSyncer._get_remote_files; ScanItems is its loop over the listing
_get_remote_files(c, dir, prefix) ==
    Do(sftp_listdir_attr(c, dir), LAMBDA c1 :
    IF c1.exc # None
    THEN [Caught(c1, {IOError, FileNotFoundError}) EXCEPT !.ret = <<>>]
    ELSE ScanItems(c1, c1.ret, dir, prefix, <<>>))

ScanItems(c, items, dir, prefix, files) ==
    IF items = <<>> THEN [c EXCEPT !.ret = files]
    ELSE LET item == Head(items)
             item_path == os_path_join(dir, item.filename)
             rel_path == IF prefix # <<>> THEN os_path_join(prefix, item.filename)
                         ELSE item.filename
         IN IF item.attr.isdir
            THEN Do(_get_remote_files(c, item_path, rel_path), LAMBDA c1 :
                 ScanItems(c1, Tail(items), dir, prefix, files \o c1.ret))
            ELSE ScanItems(c, Tail(items), dir, prefix,
                           Append(files, replace(rel_path, os_sep, "/")))

\* the loop of _delete_remote_files removing also in a dry run
RECURSIVE DeleteLoop_AlsoDry(_, _)
DeleteLoop_AlsoDry(c, files_to_delete) ==
    IF files_to_delete = <<>> \/ c.exc # None THEN c
    ELSE Do(sftp_remove(c, _get_remote_path(Head(files_to_delete))), LAMBDA c1 :
         DeleteLoop_AlsoDry(IF c1.exc = None THEN [c1 EXCEPT !.stats.deleted = @ + 1]
                            ELSE c1,
                            Tail(files_to_delete)))

\* the loop of _delete_remote_files over files_to_delete
RECURSIVE DeleteLoop(_, _)
DeleteLoop(c, files_to_delete) ==
    IF files_to_delete = <<>> \/ c.exc # None THEN c
    ELSE Do(IF ~config.dry_run
            THEN sftp_remove(c, _get_remote_path(Head(files_to_delete))) ELSE c,
            LAMBDA c1 :
         DeleteLoop(IF c1.exc = None THEN [c1 EXCEPT !.stats.deleted = @ + 1] ELSE c1,
                    Tail(files_to_delete)))

\* _delete_remote_files removing every file the listing finds
_delete_remote_files_All(c, local_files) ==
    Do(_get_remote_files(c, config.remote_dir, <<>>), LAMBDA c1 :
    Do(DeleteLoop(c1, c1.ret), LAMBDA c2 : Caught(c2, {IOError, FileNotFoundError})))

\* SFTPSyncer._delete_remote_files
_delete_remote_files(c, local_files) ==
    Do(_get_remote_files(c, config.remote_dir, <<>>), LAMBDA c1 :
    Do(DeleteLoop(c1, SelectSeq(c1.ret, LAMBDA f : f \notin Range(local_files))),
       LAMBDA c2 : Caught(c2, {IOError, FileNotFoundError})))

\* the iteration swallowing the exception without counting it
SyncOne_Uncounted(c, rel_path, t) ==
    Do(_sync_file(c, rel_path, t), LAMBDA c1 : Caught(c1, {IOError, FileNotFoundError}))

\* one iteration of the loop of sync(): _sync_file under try/except Exception
SyncOne(c, rel_path, t) ==
    Do(_sync_file(c, rel_path, t), LAMBDA c1 :
    IF c1.exc # None
    THEN [Caught(c1, {IOError, FileNotFoundError}) EXCEPT !.stats.errors = @ + 1]
    ELSE c1)

\* the context a handler starts with
Ctx(phase, faults) ==
    [fs |-> remote, ops |-> <<>>, faults |-> faults, exc |-> None, ret |-> None,
     stats |-> stats, phase |-> phase]

(***************************************************************************)
(* The runs that are explored                                              *)
(***************************************************************************)
MaxRuns == 2        \* sync() invocations in a behaviour of SpecRerun
MaxTime == 2        \* the server's clock is in 0..MaxTime
MaxFaults == 1      \* requests the transport fails in a behaviour of Spec

Nested(rel) == \E k \in 1..Len(rel) : rel[k] = "/"

\* os.walk is top-down: the files of the root come before those of "d"
WalkOrders ==
    {s \in UNION {[1..k -> LocalPaths] : k \in 0..Cardinality(LocalPaths)} :
        /\ \A i, j \in 1..Len(s) : i # j => s[i] # s[j]
        /\ \A i, j \in 1..Len(s) : (Nested(s[i]) /\ ~Nested(s[j])) => j < i}

RemoteFile(rel, size, mtime) == File(<<"remote", rel>>, size, mtime, ServerMode)

\* what may be at a remote path before the first run.  For a local file:
\* nothing, a copy as large as and not older than the local file, a copy of
\* another size, or an older copy
ChoicesAt(rel) ==
    IF rel = F_a
    THEN {<<>>, <<RemoteFile(rel, 1, 2)>>, <<RemoteFile(rel, 3, 2)>>,
          <<RemoteFile(rel, 1, 0)>>}
    ELSE IF rel = F_a_backup THEN {<<>>, <<RemoteFile(rel, 2, 1)>>}
    ELSE IF rel = F_d_b
    THEN {<<>>, <<RemoteFile(rel, 1, 1)>>, <<RemoteFile(rel, 1, 0)>>}
    ELSE {<<>>, <<RemoteFile(<<"only">>, 1, 2)>>}

Config(remote_dir, dry_run, backup_remote, delete_remote, preserve_permissions) ==
    [remote_dir |-> remote_dir, include_patterns |-> <<Star>>,
     exclude_patterns |-> <<>>, delete_remote |-> delete_remote,
     preserve_permissions |-> preserve_permissions, dry_run |-> dry_run,
     follow_symlinks |-> FALSE, backup_remote |-> backup_remote]

R_root == <<"r">>
R_d == os_path_join(R_root, <<"d">>)

\* the remote tree under an existing root: the files picked (pick[rel] is
\* <<>> or <<the file at rel>>), "d" when something is in it, and the root
RootedFs(pick) ==
    LET rels == {rel \in DOMAIN pick : pick[rel] # <<>>}
        files == {os_path_join(R_root, rel) : rel \in rels}
        dirs == {R_root} \cup (IF \E rel \in rels : Nested(rel) THEN {R_d} ELSE {})
    IN [q \in files \cup dirs |->
           IF q \in files
           THEN LET rel == CHOOSE x \in rels : q = os_path_join(R_root, x)
                IN pick[rel][1]
           ELSE Dir]

\* the remote trees a first run may meet: no root at all, or a root with
\* any choice at the paths of the local files, with or without the two
\* files that are only on the remote
InitialRemotes ==
    {<<>>} \cup
    {RootedFs((F_a :> a) @@ (F_a_backup :> ab) @@ (F_d_b :> db)
              @@ (F_c :> c) @@ (F_d_e :> c)) :
        a \in ChoicesAt(F_a), ab \in ChoicesAt(F_a_backup),
        db \in ChoicesAt(F_d_b), c \in ChoicesAt(F_c)}

\* SFTPSyncer.__init__ for the first syncer, before any run
InitSync ==
    /\ config \in {Config(R_root, dr, bk, de, pp) :
                     dr \in BOOLEAN, bk \in BOOLEAN, de \in BOOLEAN, pp \in BOOLEAN}
    /\ stats = ZeroStats
    /\ pc = "idle"
    /\ local_tree \in WalkOrders
    /\ files_to_sync = <<>>
    /\ idx = 0
    /\ remote \in InitialRemotes
    /\ ops = <<>>
    /\ run = 0
    /\ remote0 = remote
    /\ reports = <<>>
    /\ flt = FileFilter(List(config.include_patterns), List(config.exclude_patterns))
    /\ flt_args = <<List(config.include_patterns), List(config.exclude_patterns)>>
    /\ flt_path = <<>>
    /\ flt_result = NoResult
    /\ NoWalk
    /\ NoRest

\* one run, in which the transport may fail up to MaxFaults requests
Init ==
    /\ InitSync
    /\ now = MaxTime
    /\ budget = MaxFaults

\* the sets of positions at which the transport may fail a handler that
\* issues n requests when nothing fails: none, or one of them
FaultChoices(n) == {{}} \cup (IF budget > 0 THEN {{k} : k \in 1..n} ELSE {})

\* the faults of c.faults that were hit
Hit(c) == {k \in c.faults : k <= Len(c.ops)}

\* SFTPSyncer.disconnect: the session is closed; it is logged after the
\* requests made so far
disconnect(log) ==
    Append(log, [op |-> "disconnect", path |-> <<>>, res |-> None,
                 phase |-> <<"finally">>, old |-> <<>>])

\* connect() raises (no route, refused, authentication, unknown host key):
\* sync() ends through its finally clause before any request is made
SyncConnectFails ==
    /\ pc = "idle"
    /\ run < MaxRuns
    /\ budget > 0
    /\ budget' = budget - 1
    /\ pc' = "failed"
    /\ ops' = disconnect(<<>>)
    /\ files_to_sync' = <<>>
    /\ idx' = 0
    /\ run' = run + 1
    /\ remote0' = remote
    /\ UNCHANGED <<config, stats, remote, now, reports, local_tree, filterVars,
                   walkVars, restVars>>

\* sync() going on to the candidates whatever ensuring the root met
SyncBegin_Continues ==
    /\ pc = "idle"
    /\ run < MaxRuns
    /\ \E c0 \in {_ensure_remote_dir(Ctx(<<"root">>, {}), config.remote_dir)} :
       \E faults \in FaultChoices(Len(c0.ops)) :
       \E c \in {_ensure_remote_dir(Ctx(<<"root">>, faults), config.remote_dir)} :
         /\ remote' = c.fs
         /\ ops' = c.ops
         /\ budget' = budget - Cardinality(Hit(c))
         /\ pc' = "files"
         /\ files_to_sync' = filter_files(flt, local_tree)
    /\ idx' = 0
    /\ run' = run + 1
    /\ remote0' = remote
    /\ UNCHANGED <<config, stats, now, reports, local_tree, filterVars, walkVars, restVars>>

\* sync() up to its loop: connect, ensure the remote root, enumerate the
\* local files and filter them.  An exception here leaves sync() through
\* its finally clause.
SyncBegin ==
    /\ pc = "idle"
    /\ run < MaxRuns
    /\ \E c0 \in {_ensure_remote_dir(Ctx(<<"root">>, {}), config.remote_dir)} :
       \E faults \in FaultChoices(Len(c0.ops)) :
       \E c \in {_ensure_remote_dir(Ctx(<<"root">>, faults), config.remote_dir)} :
         /\ remote' = c.fs
         /\ budget' = budget - Cardinality(Hit(c))
         /\ IF c.exc # None
            THEN /\ pc' = "failed"
                 /\ ops' = disconnect(c.ops)
                 /\ files_to_sync' = <<>>
            ELSE /\ pc' = "files"
                 /\ ops' = c.ops
                 /\ files_to_sync' = filter_files(flt, local_tree)
    /\ idx' = 0
    /\ run' = run + 1
    /\ remote0' = remote
    /\ UNCHANGED <<config, stats, now, reports, local_tree, filterVars, walkVars, restVars>>

\* one iteration of the loop over files_to_sync
SyncFileStep ==
    /\ pc = "files"
    /\ idx < Len(files_to_sync)
    /\ \E c0 \in {SyncOne(Ctx(<<"file", idx + 1>>, {}), files_to_sync[idx + 1], now)} :
       \E faults \in FaultChoices(Len(c0.ops)) :
       \E c \in {SyncOne(Ctx(<<"file", idx + 1>>, faults), files_to_sync[idx + 1], now)} :
         /\ remote' = c.fs
         /\ ops' = ops \o c.ops
         /\ stats' = c.stats
         /\ budget' = budget - Cardinality(Hit(c))
    /\ idx' = idx + 1
    /\ UNCHANGED <<config, pc, files_to_sync, now, run, remote0, reports,
                   local_tree, filterVars, walkVars, restVars>>

\* the deletion pass not waiting for the loop to end
SyncDeleteStep_Early ==
    /\ pc = "files"
    /\ idx <= Len(files_to_sync)
    /\ IF config.delete_remote
       THEN \E c \in {_delete_remote_files(Ctx(<<"delete">>, {}), files_to_sync)} :
              /\ remote' = c.fs
              /\ ops' = ops \o c.ops
              /\ stats' = c.stats
              /\ budget' = budget
       ELSE UNCHANGED <<remote, ops, stats, budget>>
    /\ pc' = "finish"
    /\ UNCHANGED <<config, files_to_sync, idx, now, run, remote0, reports,
                   local_tree, filterVars, walkVars, restVars>>

\* after the loop: the deletion pass, when configured
SyncDeleteStep ==
    /\ pc = "files"
    /\ idx = Len(files_to_sync)
    /\ IF config.delete_remote
       THEN \E c0 \in {_delete_remote_files(Ctx(<<"delete">>, {}), files_to_sync)} :
            \E faults \in FaultChoices(Len(c0.ops)) :
            \E c \in {_delete_remote_files(Ctx(<<"delete">>, faults), files_to_sync)} :
              /\ remote' = c.fs
              /\ ops' = ops \o c.ops
              /\ stats' = c.stats
              /\ budget' = budget - Cardinality(Hit(c))
       ELSE UNCHANGED <<remote, ops, stats, budget>>
    /\ pc' = "finish"
    /\ UNCHANGED <<config, files_to_sync, idx, now, run, remote0, reports,
                   local_tree, filterVars, walkVars, restVars>>

\* the end of sync() switching dry_run off in the configuration it was given
SyncFinish_ForcesLive ==
    /\ pc = "finish"
    /\ pc' = "done"
    /\ reports' = Append(reports, [stats |-> stats, config |-> config,
                                   remote0 |-> remote0, remote |-> remote])
    /\ config' = [config EXCEPT !.dry_run = FALSE]
    /\ ops' = disconnect(ops)
    /\ UNCHANGED <<stats, files_to_sync, idx, remote, now, run,
                   remote0, local_tree, budget, filterVars,
                   walkVars, restVars>>

\* the end of sync() leaving the session open
SyncFinish_KeepsSession ==
    /\ pc = "finish"
    /\ pc' = "done"
    /\ reports' = Append(reports, [stats |-> stats, config |-> config,
                                   remote0 |-> remote0, remote |-> remote])
    /\ UNCHANGED <<config, stats, files_to_sync, idx, remote, now, ops, run,
                   remote0, local_tree, budget, filterVars,
                   walkVars, restVars>>

\* _print_stats and the finally clause: the counters are the run's report
\* and the session is closed
SyncFinish ==
    /\ pc = "finish"
    /\ pc' = "done"
    /\ reports' = Append(reports, [stats |-> stats, config |-> config,
                                   remote0 |-> remote0, remote |-> remote])
    /\ ops' = disconnect(ops)
    /\ UNCHANGED <<config, stats, files_to_sync, idx, remote, now, run,
                   remote0, local_tree, budget, filterVars,
                   walkVars, restVars>>

\* a new SFTPSyncer is constructed for the next run, with the same
\* configuration or with dry_run switched (a rehearsal, then the real run)
NewSyncer ==
    /\ pc = "done"
    /\ run < MaxRuns
    /\ \E dr \in BOOLEAN : config' = [config EXCEPT !.dry_run = dr]
    /\ stats' = ZeroStats
    /\ pc' = "idle"
    /\ files_to_sync' = <<>>
    /\ idx' = 0
    /\ ops' = <<>>
    /\ UNCHANGED <<remote, now, run, remote0, reports, local_tree, budget,
                   filterVars, walkVars, restVars>>

Next ==
    \/ SyncConnectFails
    \/ SyncBegin
    \/ SyncFileStep
    \/ SyncDeleteStep
    \/ SyncFinish

Spec == Init /\ [][Next]_vars

\* up to MaxRuns runs one after the other over a transport that does not
\* fail, the server's clock behind or ahead of the local one
InitRerun ==
    /\ InitSync
    /\ now \in 0..MaxTime
    /\ budget = 0

NextRerun ==
    \/ SyncBegin
    \/ SyncFileStep
    \/ SyncDeleteStep
    \/ SyncFinish
    \/ NewSyncer

SpecRerun == InitRerun /\ [][NextRerun]_vars

\* sync() is called again on the SFTPSyncer whose run is over: nothing of
\* the object is touched between two calls
SyncAgain ==
    /\ pc = "done"
    /\ run < MaxRuns
    /\ pc' = "idle"
    /\ files_to_sync' = <<>>
    /\ idx' = 0
    /\ ops' = <<>>
    /\ UNCHANGED <<config, stats, remote, now, run, remote0, reports, local_tree,
                   budget, filterVars, walkVars, restVars>>

\* up to MaxRuns calls of sync() on one SFTPSyncer, the transport not failing
InitReuse ==
    /\ InitSync
    /\ now = MaxTime
    /\ budget = 0

NextReuse ==
    \/ SyncBegin
    \/ SyncFileStep
    \/ SyncDeleteStep
    \/ SyncFinish
    \/ SyncAgain

SpecReuse == InitReuse /\ [][NextReuse]_vars

\* the pattern matcher on its own
InitFilter ==
    /\ flt = NoFilter
    /\ flt_args = <<NoList, NoList>>
    /\ flt_path = <<>>
    /\ flt_result = NoResult
    /\ NoWalk
    /\ NoRest
    /\ config = Config(R_root, FALSE, FALSE, FALSE, TRUE)
    /\ stats = ZeroStats
    /\ pc = "idle"
    /\ local_tree = <<>>
    /\ files_to_sync = <<>>
    /\ idx = 0
    /\ remote = <<>>
    /\ now = 0
    /\ ops = <<>>
    /\ run = 0
    /\ remote0 = <<>>
    /\ reports = <<>>
    /\ budget = 0

NextFilter ==
    \/ NewFilter
    \/ CallShouldInclude

SpecFilter == InitFilter /\ [][NextFilter]_vars

(***************************************************************************)
(* Enumeration of the local files (SFTPSyncer._get_local_files, driven by  *)
(* os.walk) and their filtering in sync()                                  *)
(*                                                                         *)
(* The local filesystem is a function from the identity of a directory     *)
(* (its inode) to the sequence of its entries, in the order scandir gives  *)
(* them.  An entry is a regular file, a directory, a symlink to a          *)
(* directory (ino: the directory it resolves to), a symlink to a file      *)
(* (real: the real path it resolves to) or a broken symlink.               *)
(***************************************************************************)
MaxWalkDepth == 4   \* segments of the longest path os.walk is let to descend to

\* os.path.realpath(local_dir)
LocalRoot == <<"/", "w">>

RegularFile(name) == [name |-> name, kind |-> "file", ino |-> 0, real |-> <<>>]
Directory(name, ino) == [name |-> name, kind |-> "dir", ino |-> ino, real |-> <<>>]
DirLink(name, ino) == [name |-> name, kind |-> "dirlink", ino |-> ino, real |-> <<>>]
FileLink(name, real) == [name |-> name, kind |-> "filelink", ino |-> 0, real |-> real]
BrokenLink(name) == [name |-> name, kind |-> "broken", ino |-> 0, real |-> <<>>]

\* a, n/a, n/n/a
Tree_plain ==
    <<  <<RegularFile(<<"a">>), Directory(<<"n">>, 2)>>,
        <<RegularFile(<<"a">>), Directory(<<"n">>, 3)>>,
        <<RegularFile(<<"a">>)>>  >>
\* n, a/a, a/n/a
Tree_mid ==
    <<  <<RegularFile(<<"n">>), Directory(<<"a">>, 2)>>,
        <<RegularFile(<<"a">>), Directory(<<"n">>, 3)>>,
        <<RegularFile(<<"a">>)>>  >>
\* n/l is a symlink back to the root
Tree_cycle ==
    <<  <<RegularFile(<<"a">>), Directory(<<"n">>, 2)>>,
        <<RegularFile(<<"a">>), DirLink(<<"l">>, 1)>>  >>
\* l is a symlink to the directory n
Tree_twice ==
    <<  <<Directory(<<"n">>, 2), DirLink(<<"l">>, 2), RegularFile(<<"a">>)>>,
        <<RegularFile(<<"a">>)>>  >>
\* a cycle below the root: n/l -> n/l's target holds l -> n
Tree_loop ==
    <<  <<Directory(<<"n">>, 2)>>,
        <<DirLink(<<"l">>, 3)>>,
        <<RegularFile(<<"a">>), DirLink(<<"l">>, 2)>>  >>
\* symlinks to files: k -> /wx/k (a sibling of the root whose name begins
\* with the root's), o -> /o/k, i -> /w/a, and a broken one
Tree_links ==
    <<  <<RegularFile(<<"a">>),
          FileLink(<<"k">>, <<"/", "w", "x", "/", "k">>),
          FileLink(<<"o">>, <<"/", "o", "/", "k">>),
          FileLink(<<"i">>, <<"/", "w", "/", "a">>),
          BrokenLink(<<"b">>)>>  >>

LocalTrees == {Tree_plain, Tree_mid, Tree_cycle, Tree_twice, Tree_loop, Tree_links}
RootIno == 1

\* str.startswith
startswith(str, prefix) ==
    Len(prefix) <= Len(str) /\ SubSeq(str, 1, Len(prefix)) = prefix

\* os.path.relpath(os.path.join(root, name), local_path), with "/" for os.sep
rel_of(root_rel, name) ==
    IF root_rel = <<>> THEN name ELSE root_rel \o <<"/">> \o name

\* the directories os.walk yields for a root, those that are symlinks included
walk_dirs(entries) == SelectSeq(entries, LAMBDA e : e.kind \in {"dir", "dirlink"})
\* the file names it yields: everything that is no directory
walk_filenames(entries) == SelectSeq(entries, LAMBDA e : e.kind \notin {"dir", "dirlink"})

\* the loop over filenames of _get_local_files: (files, warnings) after it
RECURSIVE scan_filenames(_, _, _, _)
scan_filenames(root_rel, filenames, fs, ws) ==
    IF filenames = <<>> THEN <<fs, ws>>
    ELSE LET e == Head(filenames)
             rel_path == rel_of(root_rel, e.name)
         IN IF e.kind = "broken"
            THEN scan_filenames(root_rel, Tail(filenames), fs,
                                Append(ws, [what |-> "broken", path |-> rel_path]))
            ELSE IF /\ config.follow_symlinks
                    /\ e.kind = "filelink"
                    /\ ~startswith(e.real, LocalRoot)
            THEN scan_filenames(root_rel, Tail(filenames), fs,
                                Append(ws, [what |-> "outside", path |-> rel_path]))
            ELSE scan_filenames(root_rel, Tail(filenames), Append(fs, rel_path), ws)

\* the directories os.walk goes on to after the body has pruned dirs: every
\* one unless it is a symlink and followlinks is off
walk_descend(root_rel, dirs) ==
    LET kept == SelectSeq(dirs, LAMBDA d :
                    /\ should_include(flt, rel_of(root_rel, d.name))
                    /\ (config.follow_symlinks \/ d.kind # "dirlink")
                    /\ Len(split(rel_of(root_rel, d.name), "/")) <= MaxWalkDepth)
    IN [k \in 1..Len(kept) |->
           [path |-> rel_of(root_rel, kept[k].name), ino |-> kept[k].ino]]

\* the configurations of the enumeration
WalkConfigs ==
    {[Config(R_root, FALSE, FALSE, FALSE, TRUE)
        EXCEPT !.include_patterns = inc.list, !.exclude_patterns = exc.list,
               !.follow_symlinks = fl] :
        inc \in IncludeLists \ {NoList}, exc \in ExcludeLists \ {NoList},
        fl \in BOOLEAN}

InitWalkOf(configs) ==
    /\ config \in configs
    /\ flt = FileFilter(List(config.include_patterns), List(config.exclude_patterns))
    /\ flt_args = <<List(config.include_patterns), List(config.exclude_patterns)>>
    /\ flt_path = <<>>
    /\ flt_result = NoResult
    /\ local_fs \in LocalTrees
    /\ wpc = "walk"
    /\ walk_stack = <<[path |-> <<>>, ino |-> RootIno]>>
    /\ visited_inodes = {}
    /\ walk_files = <<>>
    /\ warnings = <<>>
    /\ traversed = <<>>
    /\ NoRest
    /\ stats = ZeroStats
    /\ pc = "idle"
    /\ local_tree = <<>>
    /\ files_to_sync = <<>>
    /\ idx = 0
    /\ remote = <<>>
    /\ now = 0
    /\ ops = <<>>
    /\ run = 0
    /\ remote0 = <<>>
    /\ reports = <<>>
    /\ budget = 0

\* the cycle check never finding anything
WalkSeen_Never(top) == FALSE

\* the cycle check at the head of the loop body finds the directory's
\* identity among those already visited
WalkSeen(top) == config.follow_symlinks /\ top.ino \in visited_inodes

\* one iteration of "for root, dirs, filenames in os.walk(...)"
WalkStep ==
    /\ wpc = "walk"
    /\ walk_stack # <<>>
    /\ LET top == Head(walk_stack)
           entries == local_fs[top.ino]
       IN IF WalkSeen(top)
          THEN /\ warnings' = Append(warnings, [what |-> "circular", path |-> top.path])
               /\ walk_stack' = Tail(walk_stack)
               /\ UNCHANGED <<visited_inodes, walk_files, traversed>>
          ELSE \E r \in {scan_filenames(top.path, walk_filenames(entries),
                                        walk_files, warnings)} :
               /\ visited_inodes' = IF config.follow_symlinks
                                    THEN visited_inodes \cup {top.ino}
                                    ELSE visited_inodes
               /\ walk_files' = r[1]
               /\ warnings' = r[2]
               /\ walk_stack' = walk_descend(top.path, walk_dirs(entries))
                                \o Tail(walk_stack)
               /\ traversed' = Append(traversed, top.ino)
    /\ UNCHANGED <<local_fs, wpc>>
    /\ UNCHANGED <<syncVars, filterVars, restVars>>

\* os.walk is exhausted: _get_local_files returns and sync() filters the list
WalkFilter ==
    /\ wpc = "walk"
    /\ walk_stack = <<>>
    /\ files_to_sync' = filter_files(flt, walk_files)
    /\ wpc' = "done"
    /\ UNCHANGED <<local_fs, walk_stack, visited_inodes, walk_files, warnings,
                   traversed, filterVars>>
    /\ UNCHANGED <<config, stats, pc, local_tree, idx, remote, now, ops, run,
                   budget, remote0, reports, restVars>>

InitWalk == InitWalkOf(WalkConfigs)

NextWalk ==
    \/ WalkStep
    \/ WalkFilter

SpecWalk == InitWalk /\ [][NextWalk]_vars

\* the enumeration is not stopped half-way; the directory "n" excluded or
\* nothing excluded
InitWalkLive ==
    InitWalkOf({c \in WalkConfigs : c.exclude_patterns \in {<<>>, << <<"n">> >>}})

SpecWalkLive == InitWalkLive /\ [][NextWalk]_vars /\ WF_vars(NextWalk)

(***************************************************************************)
(* _ensure_remote_dir called on its own, on a live syncer                  *)
(***************************************************************************)
MaxCalls == 2       \* calls of a unit in a behaviour of SpecEnsure

\* no syncer runs and no filter was built
Idle ==
    /\ flt = NoFilter
    /\ flt_args = <<NoList, NoList>>
    /\ flt_path = <<>>
    /\ flt_result = NoResult
    /\ stats = ZeroStats
    /\ pc = "idle"
    /\ local_tree = <<>>
    /\ files_to_sync = <<>>
    /\ idx = 0
    /\ now = 0
    /\ ops = <<>>
    /\ run = 0
    /\ reports = <<>>

R_d_n == os_path_join(R_d, <<"n">>)

\* the remote trees _ensure_remote_dir may meet: nothing, the root, the
\* root with "d" in it, and a regular file where the root or "d" would be
EnsureRemotes ==
    {<<>>,
     (R_root :> Dir),
     (R_root :> Dir) @@ (R_d :> Dir),
     (R_root :> Dir) @@ (R_d :> RemoteFile(<<"d">>, 1, 1)),
     (R_root :> RemoteFile(R_root, 1, 1))}

\* the paths it is called with
EnsurePaths == {<<>>, <<".">>, R_root, R_d, R_d_n}

InitEnsure ==
    /\ Idle
    /\ NoWalk
    /\ NoRest
    /\ config \in {Config(R_root, FALSE, bk, FALSE, FALSE) : bk \in BOOLEAN}
    /\ remote \in EnsureRemotes
    /\ remote0 = remote
    /\ budget = MaxFaults

\* one call self._ensure_remote_dir(remote_path); the history keeps the
\* argument, the exception that left the call (None: it returned), its
\* requests and the remote filesystem before and after
CallEnsureRemoteDir ==
    /\ Len(call) < MaxCalls
    /\ \E remote_path \in EnsurePaths :
       \E c0 \in {_ensure_remote_dir(Ctx(<<"ensure">>, {}), remote_path)} :
       \E faults \in FaultChoices(Len(c0.ops)) :
       \E c \in {_ensure_remote_dir(Ctx(<<"ensure">>, faults), remote_path)} :
         /\ remote' = c.fs
         /\ ops' = ops \o c.ops
         /\ budget' = budget - Cardinality(Hit(c))
         /\ call' = Append(call, [arg |-> remote_path, exc |-> c.exc,
                                  ops |-> c.ops, before |-> remote,
                                  after |-> c.fs])
    /\ UNCHANGED <<config, stats, pc, local_tree, files_to_sync, idx, now, run,
                   remote0, reports, filterVars, walkVars, sync_tasks, bg, clock>>

NextEnsure == CallEnsureRemoteDir

SpecEnsure == InitEnsure /\ [][NextEnsure]_vars

(***************************************************************************)
(* Config (config.py).  A setting that holds a string or None is a record: *)
(* Absent is None and Str(s) the string s.                                 *)
(***************************************************************************)
Absent == [given |-> FALSE, str |-> <<>>]
Str(s) == [given |-> TRUE, str |-> s]
\* the truth value Python gives to None and to a string
Truthy(v) == v.given /\ v.str # <<>>

\* config_dict.get(key, default)
Get(config_dict, key, default) ==
    IF key \in DOMAIN config_dict THEN config_dict[key] ELSE default

\* Config.__init__: the connection and directory settings, and the
\* remaining settings at their defaults
ConfigFrom(config_dict) ==
    [host |-> Get(config_dict, "host", Str(<<>>)),
     port |-> 22,
     username |-> Get(config_dict, "username", Str(<<>>)),
     password |-> Get(config_dict, "password", Absent),
     private_key |-> Get(config_dict, "private_key", Absent),
     private_key_password |-> Get(config_dict, "private_key_password", Absent),
     local_dir |-> Get(config_dict, "local_dir", Str(<<".">>)),
     remote_dir |-> Get(config_dict, "remote_dir", Str(<<".">>)),
     include_patterns |-> <<Star>>, exclude_patterns |-> <<>>,
     delete_remote |-> FALSE, preserve_permissions |-> TRUE,
     auto_add_host_key |-> FALSE, dry_run |-> FALSE, verbose |-> FALSE,
     follow_symlinks |-> FALSE, backup_remote |-> FALSE]

\* the paths that exist on the machine validate runs on
P_local == <<"/", "l">>
P_key == <<"/", "k">>
P_gone == <<"/", "x">>
ExistingPaths == {<<".">>, P_local, P_key}

TypeError == "TypeError"

\* os.path.exists: a TypeError for None, else whether the path is there
os_path_exists(v) ==
    [exc |-> IF v.given THEN None ELSE TypeError,
     ret |-> v.given /\ v.str \in ExistingPaths]

\* an error message: its fixed text and what the f-string puts after it
Message(text, arg) == [text |-> text, arg |-> arg]

\* Config.validate: the exception that leaves it (None: it returns) and
\* the list it returns
validate(self) ==
    LET e1 == IF ~Truthy(self.host)
              THEN <<Message("Host is required", <<>>)>> ELSE <<>>
        e2 == IF ~Truthy(self.username)
              THEN <<Message("Username is required", <<>>)>> ELSE <<>>
        e3 == IF ~Truthy(self.password) /\ ~Truthy(self.private_key)
              THEN <<Message("Either password or private_key is required", <<>>)>>
              ELSE <<>>
        e4 == IF ~Truthy(self.local_dir)
              THEN <<Message("Local directory is required", <<>>)>> ELSE <<>>
        e5 == IF ~Truthy(self.remote_dir)
              THEN <<Message("Remote directory is required", <<>>)>> ELSE <<>>
        x6 == os_path_exists(self.local_dir)
        e6 == IF ~x6.ret
              THEN <<Message("Local directory does not exist: ", self.local_dir.str)>>
              ELSE <<>>
        x7 == os_path_exists(self.private_key)
        e7 == IF Truthy(self.private_key) /\ ~x7.ret
              THEN <<Message("Private key file does not exist: ",
                             self.private_key.str)>>
              ELSE <<>>
    IN IF x6.exc # None THEN [exc |-> x6.exc, ret |-> <<>>]
       ELSE [exc |-> None, ret |-> e1 \o e2 \o e3 \o e4 \o e5 \o e6 \o e7]

Masked == Str(<<"*", "*", "*">>)

\* to_dict giving the password as it is
to_dict_PlainPassword(self) ==
    [host |-> self.host, port |-> self.port, username |-> self.username,
     password |-> self.password,
     private_key |-> self.private_key,
     local_dir |-> self.local_dir, remote_dir |-> self.remote_dir,
     include_patterns |-> self.include_patterns,
     exclude_patterns |-> self.exclude_patterns,
     delete_remote |-> self.delete_remote,
     preserve_permissions |-> self.preserve_permissions,
     auto_add_host_key |-> self.auto_add_host_key,
     dry_run |-> self.dry_run, verbose |-> self.verbose,
     follow_symlinks |-> self.follow_symlinks,
     backup_remote |-> self.backup_remote]

\* Config.to_dict
to_dict(self) ==
    [host |-> self.host, port |-> self.port, username |-> self.username,
     password |-> IF Truthy(self.password) THEN Masked ELSE Absent,
     private_key |-> self.private_key,
     local_dir |-> self.local_dir, remote_dir |-> self.remote_dir,
     include_patterns |-> self.include_patterns,
     exclude_patterns |-> self.exclude_patterns,
     delete_remote |-> self.delete_remote,
     preserve_permissions |-> self.preserve_permissions,
     auto_add_host_key |-> self.auto_add_host_key,
     dry_run |-> self.dry_run, verbose |-> self.verbose,
     follow_symlinks |-> self.follow_symlinks,
     backup_remote |-> self.backup_remote]

\* the values a key of config_dict is given: <<>> stands for a missing key
S_pw == <<"p", "w">>
S_pw2 == <<"*", "*", "*">>
S_keypw == <<"k", "p", "w">>
ValuesOf(key) ==
    IF key = "host" THEN {<<>>, <<Absent>>, <<Str(<<"h">>)>>}
    ELSE IF key = "username" THEN {<<>>, <<Str(<<>>)>>, <<Str(<<"u">>)>>}
    ELSE IF key = "password"
    THEN {<<>>, <<Absent>>, <<Str(<<>>)>>, <<Str(S_pw)>>, <<Str(S_pw2)>>}
    ELSE IF key = "private_key"
    THEN {<<>>, <<Str(<<>>)>>, <<Str(P_key)>>, <<Str(P_gone)>>}
    ELSE IF key = "private_key_password" THEN {<<>>, <<Str(S_keypw)>>}
    ELSE IF key = "local_dir"
    THEN {<<>>, <<Absent>>, <<Str(<<>>)>>, <<Str(P_local)>>, <<Str(P_gone)>>}
    ELSE {<<>>, <<Str(<<>>)>>, <<Str(<<"/", "r">>)>>}

ConfigKeys ==
    {"host", "username", "password", "private_key", "private_key_password",
     "local_dir", "remote_dir"}

\* the dictionaries a Config is built from (a YAML file, the CLI, a request)
ConfigDicts ==
    {[key \in {k \in ConfigKeys : pick[k] # <<>>} |-> pick[key][1]] :
        pick \in {("host" :> h) @@ ("username" :> u) @@ ("password" :> pw)
                  @@ ("private_key" :> pk) @@ ("private_key_password" :> kp)
                  @@ ("local_dir" :> l) @@ ("remote_dir" :> r) :
                      h \in ValuesOf("host"), u \in ValuesOf("username"),
                      pw \in ValuesOf("password"), pk \in ValuesOf("private_key"),
                      kp \in ValuesOf("private_key_password"),
                      l \in ValuesOf("local_dir"), r \in ValuesOf("remote_dir")}}

InitConfig ==
    /\ Idle
    /\ NoWalk
    /\ NoRest
    /\ config \in {ConfigFrom(d) : d \in ConfigDicts}
    /\ remote = <<>>
    /\ remote0 = <<>>
    /\ budget = 0

\* errors = config.validate()
CallValidate ==
    /\ Len(call) < MaxCalls
    /\ call' = Append(call, [fn |-> "validate", self |-> config,
                             exc |-> validate(config).exc,
                             ret |-> validate(config).ret])
    /\ UNCHANGED <<syncVars, filterVars, walkVars, sync_tasks, bg, clock>>

\* d = config.to_dict()
CallToDict ==
    /\ Len(call) < MaxCalls
    /\ call' = Append(call, [fn |-> "to_dict", self |-> config,
                             exc |-> None, ret |-> to_dict(config)])
    /\ UNCHANGED <<syncVars, filterVars, walkVars, sync_tasks, bg, clock>>

NextConfig ==
    \/ CallValidate
    \/ CallToDict

SpecConfig == InitConfig /\ [][NextConfig]_vars

(***************************************************************************)
(* The task registry of the web API (web_api.py).  sync_tasks maps a task  *)
(* id to its SyncStatus; bg holds the background calls of run_sync_task,   *)
(* each with the statement it is at; clock is the wall clock in seconds.   *)
(* A task id is "sync_" and the second the request came in, so the second  *)
(* stands for the id.                                                      *)
(***************************************************************************)
MaxTasks == 2       \* start_sync requests in a behaviour of SpecTasks
MaxClock == 1       \* the wall clock is in 0..MaxClock

NoTime == 0 - 1

\* SyncStatus(task_id=..., status=..., started_at=...): the other fields None
SyncStatus(task_id, status, started_at) ==
    [task_id |-> task_id, status |-> status, started_at |-> started_at,
     completed_at |-> NoTime, stats |-> <<>>, error |-> <<>>]

\* the configurations posted: one that validates, one whose local_dir is
\* not there
SyncConfigModels ==
    {("host" :> Str(<<"h">>)) @@ ("username" :> Str(<<"u">>))
        @@ ("password" :> Str(S_pw)) @@ ("local_dir" :> Str(l))
        @@ ("remote_dir" :> Str(<<"/", "r">>)) : l \in {P_local, P_gone}}

\* sync_tasks[task_id].<field> = value
SetAttr(task_id, field, value) ==
    sync_tasks' = [sync_tasks EXCEPT ![task_id] = [@ EXCEPT ![field] = value]]

\* bg[i] moves on to the statement at
Goto(i, at) == bg' = [bg EXCEPT ![i].at = at]

\* start_sync: the id is made of the current second, the record is stored
\* under it and run_sync_task is handed to the background tasks
StartSync ==
    /\ Len(bg) < MaxTasks
    /\ \E config_model \in SyncConfigModels :
       LET task_id == clock IN
       /\ sync_tasks' = (task_id :> SyncStatus(task_id, "pending", clock))
                           @@ sync_tasks
       /\ bg' = Append(bg, [task_id |-> task_id, config_model |-> config_model,
                            at |-> 139, e |-> <<>>, stats |-> <<>>])
    /\ UNCHANGED <<clock, call, syncVars, filterVars, walkVars>>

\* a second passes
Tick ==
    /\ clock < MaxClock
    /\ clock' = clock + 1
    /\ UNCHANGED <<sync_tasks, bg, call, syncVars, filterVars, walkVars>>

\* run_sync_task, line 139: the status becomes running
RunSetRunning(i) ==
    /\ bg[i].at = 139
    /\ SetAttr(bg[i].task_id, "status", "running")
    /\ Goto(i, 142)
    /\ UNCHANGED <<clock, call, syncVars, filterVars, walkVars>>

\* lines 142-151: the Config is built and validated, then a syncer runs;
\* a ValueError for a configuration with errors, whatever sync() raises
\* (connection, root directory), or the counters of the finished run
RunWork(i) ==
    /\ bg[i].at = 142
    /\ LET v == validate(ConfigFrom(bg[i].config_model)) IN
       IF v.exc # None \/ v.ret # <<>>
       THEN bg' = [bg EXCEPT ![i].at = 160, ![i].e = <<"Configuration errors">>]
       ELSE \/ bg' = [bg EXCEPT ![i].at = 160, ![i].e = <<"sync">>]
            \/ \E n \in 0..1 :
                  bg' = [bg EXCEPT ![i].at = 154,
                                   ![i].stats = <<[ZeroStats EXCEPT !.uploaded = n]>>]
    /\ UNCHANGED <<sync_tasks, clock, call, syncVars, filterVars, walkVars>>

\* lines 154-156, one statement a step: completed, completed_at, stats
RunCompleted(i) ==
    /\ \/ /\ bg[i].at = 154
          /\ SetAttr(bg[i].task_id, "status", "completed")
          /\ Goto(i, 155)
       \/ /\ bg[i].at = 155
          /\ SetAttr(bg[i].task_id, "completed_at", clock)
          /\ Goto(i, 156)
       \/ /\ bg[i].at = 156
          /\ SetAttr(bg[i].task_id, "stats", bg[i].stats)
          /\ Goto(i, 0)
    /\ UNCHANGED <<clock, call, syncVars, filterVars, walkVars>>

\* lines 160-162, the except clause: failed, completed_at, error
RunFailed(i) ==
    /\ \/ /\ bg[i].at = 160
          /\ SetAttr(bg[i].task_id, "status", "failed")
          /\ Goto(i, 161)
       \/ /\ bg[i].at = 161
          /\ SetAttr(bg[i].task_id, "completed_at", clock)
          /\ Goto(i, 162)
       \/ /\ bg[i].at = 162
          /\ SetAttr(bg[i].task_id, "error", bg[i].e)
          /\ Goto(i, 0)
    /\ UNCHANGED <<clock, call, syncVars, filterVars, walkVars>>

\* one statement of the i-th background call
run_sync_task(i) ==
    \/ RunSetRunning(i)
    \/ RunWork(i)
    \/ RunCompleted(i)
    \/ RunFailed(i)

InitTasks ==
    /\ Idle
    /\ NoWalk
    /\ NoRest
    /\ config = Config(R_root, FALSE, FALSE, FALSE, TRUE)
    /\ remote = <<>>
    /\ remote0 = <<>>
    /\ budget = 0

NextTasks ==
    \/ StartSync
    \/ Tick
    \/ \E i \in 1..Len(bg) : RunSetRunning(i)
    \/ \E i \in 1..Len(bg) : RunWork(i)
    \/ \E i \in 1..Len(bg) : RunCompleted(i)
    \/ \E i \in 1..Len(bg) : RunFailed(i)

SpecTasks == InitTasks /\ [][NextTasks]_vars

\* the thread pool runs every background call on: each call that can make
\* a step eventually makes one
SpecTasksLive ==
    SpecTasks /\ \A i \in 1..MaxTasks : WF_vars(i <= Len(bg) /\ run_sync_task(i))

(***************************************************************************)
(* Properties of the pattern matcher (checked under SpecFilter)            *)
(***************************************************************************)
FilterCalled == flt_result # NoResult
Returned == flt_result[1]

\* the segments of a path and the three things a pattern is tried on: the
\* path, what is left after dropping leading segments, and the ancestors
SlashesOf(p) == {k \in 1..Len(p) : p[k] = "/"}
SuffixesOf(p) == {SubSeq(p, k + 1, Len(p)) : k \in SlashesOf(p)}
AncestorsOf(p) == {SubSeq(p, 1, k - 1) : k \in SlashesOf(p)}
ThreeWay(p, pat) ==
    \E q \in {p} \cup SuffixesOf(p) \cup AncestorsOf(p) : fnmatch(q, pat)
SegmentsOf(p) ==
    {SubSeq(p, i, j) : i \in 1..Len(p), j \in 1..Len(p)} \cap
    {s \in {SubSeq(p, i, j) : i \in 1..Len(p), j \in 1..Len(p)} :
        /\ s # <<>>
        /\ \A k \in 1..Len(s) : s[k] # "/"
        /\ \E i \in 1..Len(p) :
              /\ SubSeq(p, i, i + Len(s) - 1) = s
              /\ (i = 1 \/ p[i - 1] = "/")
              /\ (i + Len(s) - 1 = Len(p) \/ p[i + Len(s)] = "/")}

SomeExcludeMatches ==
    \E k \in 1..Len(flt.exclude_patterns) : ThreeWay(flt_path, flt.exclude_patterns[k])
SomeIncludeMatches ==
    \E k \in 1..Len(flt.include_patterns) : ThreeWay(flt_path, flt.include_patterns[k])

\* C9: exclusion takes precedence.  Whenever should_include has been called
\* on a path that some exclude pattern matches (the full path, a suffix
\* obtained by dropping leading segments, or an ancestor prefix), it
\* returned false, also when an include pattern matches the path as well;
\* with include ["*.py"] and exclude ["test_*.py"] it returned true for
\* main.py and false for test_main.py.
ExcludePrecedence ==
    FilterCalled =>
        /\ SomeExcludeMatches => Returned = FALSE
        /\ (/\ flt.include_patterns = <<S_star_py>>
            /\ flt.exclude_patterns = <<S_test_star_py>>) =>
              /\ flt_path = S_main_py => Returned = TRUE
              /\ flt_path = S_test_main_py => Returned = FALSE

\* C9 witness: a call on test_main.py, which "*.py" includes and
\* "test_*.py" excludes
ExcludePrecedenceWitness ==
    /\ FilterCalled
    /\ flt_path = S_test_main_py
    /\ flt.include_patterns = <<S_star_py>>
    /\ flt.exclude_patterns = <<S_test_star_py>>
    /\ SomeExcludeMatches
    /\ SomeIncludeMatches
    /\ Returned = FALSE

BareName(pat) == pat # <<>> /\ \A k \in 1..Len(pat) : pat[k] \notin {"*", "?", "/", "["}

\* C10: a bare directory name excludes at any depth.  Whenever
\* should_include has been called with a bare name N (no wildcard, no slash)
\* among the exclude patterns and a path one of whose segments is N, it
\* returned false; and a path with no segment equal to N is not excluded by
\* N (with N the only exclude pattern and the default include, it returned
\* true).
BareNameExcludesAtAnyDepth ==
    FilterCalled =>
        /\ (\E k \in 1..Len(flt.exclude_patterns) :
               /\ BareName(flt.exclude_patterns[k])
               /\ flt.exclude_patterns[k] \in SegmentsOf(flt_path))
           => Returned = FALSE
        /\ (/\ Len(flt.exclude_patterns) = 1
            /\ BareName(flt.exclude_patterns[1])
            /\ flt.exclude_patterns[1] \notin SegmentsOf(flt_path)
            /\ flt.include_patterns = <<Star>>)
           => Returned = TRUE

(***************************************************************************)
(* Properties of a run (checked under Spec)                                *)
(***************************************************************************)
Mutating == {"put", "mkdir", "rename", "remove", "chmod"}
FilePhase(i) == <<"file", i>>
DeletePhase == <<"delete">>
Live == ~config.dry_run
InLoopOrAfter == pc \in {"files", "finish", "done"}

\* the requests of the per-file step of the i-th candidate, in order
OpsOfFile(i) == SelectSeq(ops, LAMBDA o : o.phase = FilePhase(i))
OpsOfDelete == SelectSeq(ops, LAMBDA o : o.phase = DeletePhase)
\* the transport failed a request of the i-th candidate's step
Failing(i) == \E k \in 1..Len(ops) : ops[k].phase = FilePhase(i) /\ ops[k].res = IOError
NoTransportError == \A k \in 1..Len(ops) : ops[k].res # IOError
Issued(i, op) == \E k \in 1..Len(ops) : ops[k].phase = FilePhase(i) /\ ops[k].op = op
Succeeded(i, op) ==
    \E k \in 1..Len(ops) :
       ops[k].phase = FilePhase(i) /\ ops[k].op = op /\ ops[k].res = None

\* C1: per-file error isolation.  While and after the loop of sync() runs,
\* errors is the number of candidates processed so far whose step met a
\* transport error, every other processed candidate is counted in uploaded
\* or skipped, and a finished run has processed every candidate, whichever
\* of them failed.
ErrorIsolation ==
    InLoopOrAfter =>
        /\ stats.errors = Cardinality({i \in 1..idx : Failing(i)})
        /\ stats.uploaded + stats.skipped = Cardinality({i \in 1..idx : ~Failing(i)})
        /\ \A i \in 1..idx : Issued(i, "stat")
        /\ pc \in {"finish", "done"} => idx = Len(files_to_sync)

\* C1 witness: of three candidates only the second failed; the run is over
\* with errors = 1 and the two others counted
ErrorIsolationWitness ==
    /\ pc = "done"
    /\ Len(files_to_sync) = 3
    /\ Failing(2) /\ ~Failing(1) /\ ~Failing(3)
    /\ Succeeded(3, "put")
    /\ stats.errors = 1
    /\ stats.uploaded + stats.skipped = 2

\* C2: a dry run does not touch the remote.  With dry_run set, in every
\* state of the run no put, mkdir, rename, remove or chmod has been issued
\* and the remote filesystem is what it was when the run began, whatever
\* backup_remote, preserve_permissions and delete_remote are.
DryRunNonMutation ==
    config.dry_run =>
        /\ \A k \in 1..Len(ops) : ops[k].op \notin Mutating
        /\ remote = remote0

\* C2 witness: a finished dry run with backup, permissions and deletion
\* enabled that would have created the root, uploaded and deleted
DryRunNonMutationWitness ==
    /\ config.dry_run /\ config.backup_remote /\ config.delete_remote
    /\ config.preserve_permissions
    /\ pc = "done"
    /\ stats.uploaded > 1
    /\ stats.deleted > 0
    /\ \E i \in 1..idx : Nested(files_to_sync[i])
    /\ \E k \in 1..Len(ops) :
          ops[k].phase = FilePhase(1) /\ ops[k].op = "stat" /\ ops[k].old # <<>>

\* C8: the deletion pass comes last.  Every request of the deletion pass
\* (its listings and its removes) is issued when the step of every
\* candidate is over, successfully or not, so after all of their requests;
\* the pass lists the root at most once in a run; and it removes the file
\* of no candidate, a candidate whose upload failed included.
DeletionPassLast ==
    /\ OpsOfDelete # <<>> => idx = Len(files_to_sync) /\ pc \in {"finish", "done"}
    /\ \A j, k \in 1..Len(ops) :
          (j < k /\ ops[j].phase = DeletePhase)
          => ops[k].phase = DeletePhase \/ ops[k].op = "disconnect"
    /\ Cardinality({k \in 1..Len(ops) :
                       /\ ops[k].phase = DeletePhase
                       /\ ops[k].op = "listdir_attr"
                       /\ ops[k].path = config.remote_dir}) <= 1
    /\ \A k \in 1..Len(ops) :
          (ops[k].phase = DeletePhase /\ ops[k].op = "remove")
          => \A i \in 1..Len(files_to_sync) :
                ops[k].path # _get_remote_path(files_to_sync[i])

\* C8 witness: a finished live run in which the first candidate failed, its
\* remote file is still there, and the deletion pass removed another file
DeletionPassLastWitness ==
    /\ pc = "done" /\ Live
    /\ Len(files_to_sync) >= 2
    /\ Failing(1)
    /\ _get_remote_path(files_to_sync[1]) \in DOMAIN remote
    /\ \E k \in 1..Len(ops) :
          ops[k].phase = DeletePhase /\ ops[k].op = "remove" /\ ops[k].res = None

\* the requests of the step just taken
StepOps == SubSeq(ops', Len(ops) + 1, Len(ops'))
StepClean == \A k \in 1..Len(StepOps) : StepOps[k].res # IOError

\* the remote copy of a local file is there, not older and as large
RemoteUpToDate(fs, rel) ==
    LET p == os_path_join(config.remote_dir, rel) IN
    /\ p \in DOMAIN fs
    /\ fs[p].st_mtime >= local_stat(rel).st_mtime
    /\ fs[p].st_size = local_stat(rel).st_size

\* what a per-file step whose stat was answered does to a candidate
DecisionOfStep(rel) ==
    LET p == os_path_join(config.remote_dir, rel) IN
    /\ (stats'.skipped = stats.skipped + 1) <=> RemoteUpToDate(remote, rel)
    /\ RemoteUpToDate(remote, rel) =>
          /\ stats'.uploaded = stats.uploaded
          /\ Len(StepOps) = 1
          /\ remote' = remote
    /\ ~RemoteUpToDate(remote, rel) =>
          /\ stats'.skipped = stats.skipped
          /\ StepClean =>
                /\ stats'.uploaded = stats.uploaded + 1
                /\ Live => /\ \E k \in 1..Len(StepOps) :
                                 /\ StepOps[k].op = "put"
                                 /\ StepOps[k].path = p
                           /\ remote'[p].data = local_stat(rel).data
    /\ (p \notin DOMAIN remote /\ StepClean) => stats'.errors = stats.errors

\* C4: the diff decision.  In every per-file step whose stat of the remote
\* path was answered (found or not found), the candidate is skipped, and
\* nothing else happens, exactly when the remote file exists with
\* mtime >= the local mtime and the local size; otherwise the step uploads
\* (it counts uploaded and, in a live run, puts the file, unless a later
\* request fails); a remote file that is not there is no error.
DiffDecision ==
    [][(pc = "files" /\ idx' = idx + 1 /\ StepOps[1].res # IOError)
       => DecisionOfStep(files_to_sync[idx + 1])]_vars

\* C4 witness: a clean run that skipped one candidate and uploaded another
\* whose remote file was not there
DiffDecisionWitness ==
    /\ pc = "done"
    /\ NoTransportError
    /\ stats.skipped >= 1 /\ stats.uploaded >= 1 /\ stats.errors = 0
    /\ \E k \in 1..Len(ops) :
          ops[k].op = "stat" /\ ops[k].res = FileNotFoundError
          /\ ops[k].phase # <<"root">>
    /\ \E k \in 1..Len(ops) :
          ops[k].op = "stat" /\ ops[k].old # <<>> /\ ~ops[k].old[1].isdir
          /\ ops[k].old[1].st_mtime = 1

\* the files a recursive listing of the remote root finds, and those among
\* them that are no candidate
IsUnder(q, d) == Len(q) > Len(d) + 1 /\ SubSeq(q, 1, Len(d) + 1) = d \o <<"/">>
RelativeTo(q, d) == SubSeq(q, Len(d) + 2, Len(q))
RemoteFilesOf(fs) ==
    {q \in DOMAIN fs : ~fs[q].isdir /\ IsUnder(q, config.remote_dir)}
RemoteOnly(fs) ==
    {q \in RemoteFilesOf(fs) : RelativeTo(q, config.remote_dir) \notin Range(files_to_sync)}

DeletionOfStep ==
    /\ (Live /\ config.delete_remote /\ StepClean) =>
          /\ DOMAIN remote' = DOMAIN remote \ RemoteOnly(remote)
          /\ \A q \in DOMAIN remote' : remote'[q] = remote[q]
          /\ {StepOps[k].path : k \in {j \in 1..Len(StepOps) : StepOps[j].op = "remove"}}
                = RemoteOnly(remote)
          /\ stats'.deleted = stats.deleted + Cardinality(RemoteOnly(remote))
          /\ \A i \in 1..Len(files_to_sync) :
                _get_remote_path(files_to_sync[i]) \in DOMAIN remote
                => _get_remote_path(files_to_sync[i]) \in DOMAIN remote'
    /\ ~config.delete_remote => StepOps = <<>> /\ remote' = remote

\* C7 (as amended): deletion correctness.  In a live run with delete_remote
\* set, a deletion pass that meets no transport error removes exactly the
\* remote files under the root whose relative path is no candidate, counts
\* each in deleted, and leaves everything else as it was; with
\* delete_remote not set the deletion pass issues no request at all and
\* deleted stays 0.
DeletionCorrectness ==
    /\ [](~config.delete_remote => (stats.deleted = 0 /\ OpsOfDelete = <<>>))
    /\ [][(pc = "files" /\ pc' = "finish") => DeletionOfStep]_vars

\* C7 witness: local {a, d/b}, remote {a, d/b, c, d/e}: the pass removed
\* exactly c and d/e
DeletionCorrectnessWitness ==
    /\ pc = "done" /\ Live /\ config.delete_remote /\ NoTransportError
    /\ files_to_sync = <<F_a, F_d_b>>
    /\ {_get_remote_path(F_a), _get_remote_path(F_d_b), _get_remote_path(F_c),
        _get_remote_path(F_d_e)} \subseteq DOMAIN remote0
    /\ stats.deleted = 2
    /\ RemoteFilesOf(remote) = {_get_remote_path(F_a), _get_remote_path(F_d_b)}

\* C7 as stated: with delete_remote not set no remove is ever issued and
\* deleted stays 0
NoRemoveWithoutDeleteRemote ==
    ~config.delete_remote =>
        /\ \A k \in 1..Len(ops) : ops[k].op # "remove"
        /\ stats.deleted = 0

\* C6 as stated: backup before overwrite.  When a live run with
\* backup_remote is over, for every candidate that was uploaded over an
\* existing remote file p: p.backup holds what p held before the upload, p
\* holds the local content, and what an earlier p.backup held is nowhere on
\* the remote.
BackupKept ==
    (pc = "done" /\ Live /\ config.backup_remote) =>
    \A i \in 1..Len(files_to_sync) :
       LET p == os_path_join(config.remote_dir, files_to_sync[i])
           s == OpsOfFile(i)
       IN (s[1].old # <<>> /\ Succeeded(i, "put")) =>
             /\ p \o BackupSuffix \in DOMAIN remote
             /\ remote[p \o BackupSuffix].data = s[1].old[1].data
             /\ p \in DOMAIN remote
             /\ remote[p].data = local_stat(files_to_sync[i]).data
             /\ \A k \in 1..Len(s) :
                   (s[k].op = "remove" /\ s[k].res = None)
                   => \A q \in DOMAIN remote : remote[q].data # s[k].old[1].data

(***************************************************************************)
(* Properties of two runs in a row (checked under SpecRerun, where the     *)
(* transport does not fail)                                                *)
(***************************************************************************)
TwoRunsDone == Len(reports) = 2 /\ pc = "done"

\* C3 as stated: a dry run reports the counters of the live run.  When a
\* dry run and then a live run of the same configuration (dry_run apart)
\* have run over the same local tree from the same remote state, their
\* four counters are equal.
DryRunCountersMatchLive ==
    (/\ TwoRunsDone
     /\ reports[1].config.dry_run /\ ~reports[2].config.dry_run
     /\ reports[1].remote0 = reports[2].remote0)
    => reports[1].stats = reports[2].stats

\* no remote copy of a candidate is older than the local file
RemoteCopiesNotOlder(fs) ==
    \A i \in 1..Len(files_to_sync) :
       LET p == os_path_join(config.remote_dir, files_to_sync[i]) IN
       p \in DOMAIN fs => fs[p].st_mtime >= local_stat(files_to_sync[i]).st_mtime

\* C5 as stated: diff idempotence.  After a live run that finished with no
\* errors, a second run over the unchanged local tree, the remote copies
\* being no older than the local files, uploads nothing, skips every
\* candidate and issues no put.
RerunSkipsEverything ==
    (/\ TwoRunsDone
     /\ ~reports[1].config.dry_run /\ reports[1].stats.errors = 0
     /\ RemoteCopiesNotOlder(reports[2].remote0))
    => /\ reports[2].stats.uploaded = 0
       /\ reports[2].stats.skipped = Len(files_to_sync)
       /\ \A k \in 1..Len(ops) : ops[k].op # "put"

(***************************************************************************)
(* Properties of the default and of restricted include patterns (checked   *)
(* under SpecFilter)                                                       *)
(***************************************************************************)
NoPatterns(arg) == arg \in {NoList, List(<<>>)}

\* C11: default inclusion.  Whenever should_include has been called on a
\* FileFilter constructed with no include patterns (None or an empty list)
\* and no exclude patterns, it returned true; and a filter constructed with
\* an empty include list is the filter constructed with ["*"] and returned
\* what that one returns.
DefaultInclusion ==
    FilterCalled =>
        /\ (NoPatterns(flt_args[1]) /\ NoPatterns(flt_args[2])) => Returned = TRUE
        /\ NoPatterns(flt_args[1]) =>
              /\ flt = FileFilter(List(<<Star>>), flt_args[2])
              /\ Returned = should_include(FileFilter(List(<<Star>>), flt_args[2]),
                                           flt_path)

\* C11 witness: a call on a nested path of a filter constructed with an
\* empty include list and no exclude patterns
DefaultInclusionWitness ==
    /\ FilterCalled
    /\ flt_args = <<List(<<>>), NoList>>
    /\ flt_path = S_src_git_config
    /\ Returned = TRUE

\* C12: restricted include.  Whenever should_include has been called on a
\* filter whose include patterns are not the universal default and no
\* exclude pattern matches the path, it returned true exactly when some
\* include pattern matches the path (the full path, a suffix or an ancestor
\* prefix); with include ["*.py", "*.txt"] it returned true for test.py and
\* data.txt and false for image.png.
RestrictedInclude ==
    FilterCalled =>
        /\ (flt.include_patterns # <<Star>> /\ ~SomeExcludeMatches)
              => (Returned = SomeIncludeMatches)
        /\ (flt_args = <<List(<<S_star_py, S_star_txt>>), NoList>>) =>
              /\ flt_path \in {S_test_py, S_data_txt} => Returned = TRUE
              /\ flt_path = S_image_png => Returned = FALSE

\* C12 witness: image.png rejected by include ["*.py", "*.txt"], which no
\* exclude pattern could have rejected
RestrictedIncludeWitness ==
    /\ FilterCalled
    /\ flt_args = <<List(<<S_star_py, S_star_txt>>), NoList>>
    /\ flt_path = S_image_png
    /\ ~SomeExcludeMatches
    /\ ~SomeIncludeMatches
    /\ Returned = FALSE

(***************************************************************************)
(* Properties of the enumeration of local files (checked under SpecWalk    *)
(* and, for termination, SpecWalkLive)                                     *)
(***************************************************************************)
WalkDone == wpc = "done"
NoSymlinks(fs) ==
    \A i \in DOMAIN fs : \A k \in 1..Len(fs[i]) : fs[i][k].kind \in {"file", "dir"}
NoDuplicates(seq) == \A i, j \in 1..Len(seq) : i # j => seq[i] # seq[j]

\* the relative paths of the regular files under a directory of a tree
\* without symlinks
RECURSIVE RegularFilesUnder(_, _)
RegularFilesUnder(ino, prefix) ==
    UNION {IF local_fs[ino][k].kind = "file"
           THEN {rel_of(prefix, local_fs[ino][k].name)}
           ELSE RegularFilesUnder(local_fs[ino][k].ino,
                                  rel_of(prefix, local_fs[ino][k].name)) :
           k \in 1..Len(local_fs[ino])}

\* the entry a relative path (split into its segments) leads to
RECURSIVE EntryAt(_, _)
EntryAt(ino, parts) ==
    LET e == CHOOSE x \in Range(local_fs[ino]) : x.name = Head(parts)
    IN IF Len(parts) = 1 THEN e ELSE EntryAt(e.ino, Tail(parts))

\* C13: the candidate set equals the filtered local files.  When the
\* enumeration of a tree without symlinks is done, the candidate list holds,
\* each once, exactly the regular files under the root whose relative path
\* should_include accepts, the files in subdirectories included.
CandidatesAreFilteredFiles ==
    (WalkDone /\ NoSymlinks(local_fs)) =>
        /\ Range(files_to_sync) =
             {p \in RegularFilesUnder(RootIno, <<>>) : should_include(flt, p)}
        /\ NoDuplicates(files_to_sync)

\* C14: with the default include patterns (empty or ["*"]), when the
\* enumeration of a tree without symlinks is done every regular file for
\* whose relative path should_include returns true is a candidate, at every
\* depth.
DefaultIncludeKeepsUnexcluded ==
    (/\ WalkDone
     /\ NoSymlinks(local_fs)
     /\ config.include_patterns \in {<<>>, <<Star>>}) =>
        \A p \in RegularFilesUnder(RootIno, <<>>) :
            should_include(flt, p) => p \in Range(files_to_sync)

TraversedOnce == NoDuplicates(traversed)
\* os.walk was never kept from descending by MaxWalkDepth
NotCutOff ==
    \A k \in 1..Len(walk_stack) :
        Len(split(walk_stack[k].path, "/")) < MaxWalkDepth
\* a directory whose identity was seen before is dropped with a warning:
\* none of its entries is looked at and nothing below it is queued
RepeatIsSkipped ==
    (/\ wpc = "walk"
     /\ walk_stack # <<>>
     /\ config.follow_symlinks
     /\ Head(walk_stack).ino \in Range(traversed)) =>
        /\ walk_stack' = Tail(walk_stack)
        /\ walk_files' = walk_files
        /\ traversed' = traversed
        /\ warnings' = Append(warnings, [what |-> "circular",
                                         path |-> Head(walk_stack).path])
DefaultFilter == flt = FileFilter(NoList, NoList)

\* C15: the cycle guard.  With follow_symlinks, no directory identity is
\* traversed twice, a directory met again is not descended into and is
\* reported by a warning, the enumeration is never deeper than the tree has
\* directories, it terminates, and (nothing being filtered out) every
\* directory of the tree has then been traversed.
CycleGuard ==
    /\ [](config.follow_symlinks => TraversedOnce)
    /\ [](config.follow_symlinks => NotCutOff)
    /\ [][RepeatIsSkipped]_vars
    /\ <>WalkDone
    /\ []((WalkDone /\ config.follow_symlinks /\ DefaultFilter)
            => Range(traversed) = DOMAIN local_fs)

\* C15 witness: the tree with n/l pointing back to the root was enumerated
\* with follow_symlinks: n/l was reported and a and n/a were found
CycleGuardWitness ==
    /\ WalkDone
    /\ config.follow_symlinks
    /\ local_fs = Tree_cycle
    /\ warnings = <<[what |-> "circular", path |-> <<"n", "/", "l">>]>>
    /\ walk_files = << <<"a">>, <<"n", "/", "a">> >>
    /\ traversed = <<1, 2>>

\* a real path that is neither the root nor below it, by path components
OutsideRoot(real) == real # LocalRoot /\ ~startswith(real, LocalRoot \o <<"/">>)

\* C16: the containment guard.  When an enumeration with follow_symlinks is
\* done, no candidate is a symlink to a file whose real path is outside the
\* real path of the local root.
ContainmentGuard ==
    (WalkDone /\ config.follow_symlinks) =>
        \A k \in 1..Len(files_to_sync) :
            LET e == EntryAt(RootIno, split(files_to_sync[k], "/"))
            IN ~(e.kind = "filelink" /\ OutsideRoot(e.real))

(***************************************************************************)
(* Properties of failures in a run (checked under Spec)                    *)
(***************************************************************************)
RootPhase == <<"root">>
RootFailed ==
    \E k \in 1..Len(ops) : ops[k].phase = RootPhase /\ ops[k].res = IOError
ConnectFailed == pc = "failed" /\ ops = disconnect(<<>>)

\* C17: a root-level failure is fatal.  A request that fails while the
\* remote root is ensured (with anything but not-found), and a connection
\* that cannot be made, end sync(); and when sync() has ended so, no
\* candidate was enumerated or processed, no put, rename or remove was
\* issued and the four counters are 0.
RootFailureIsFatal ==
    /\ RootFailed => pc = "failed"
    /\ pc = "failed" =>
          /\ RootFailed \/ ConnectFailed
          /\ files_to_sync = <<>>
          /\ idx = 0
          /\ stats = ZeroStats
          /\ \A k \in 1..Len(ops) :
                /\ ops[k].phase = RootPhase \/ ops[k].op = "disconnect"
                /\ ops[k].op \notin {"put", "rename", "remove"}

\* C17 witness: the root was missing and its mkdir failed, with local files
\* waiting
RootFailureIsFatalWitness ==
    /\ pc = "failed"
    /\ local_tree # <<>>
    /\ Len(ops) = 3
    /\ ops[1].op = "stat" /\ ops[1].res = FileNotFoundError
    /\ ops[2].op = "mkdir" /\ ops[2].res = IOError
    /\ ops[3].op = "disconnect"
    /\ stats = ZeroStats

CountedOps == {"stat", "mkdir", "put", "chmod", "rename", "remove"}
\* the requests after the root was ensured that failed with an error other
\* than not-found
FailedRequests ==
    {k \in 1..Len(ops) :
        ops[k].phase # RootPhase /\ ops[k].op \in CountedOps /\ ops[k].res = IOError}
FailedRemovals ==
    {ops[k].path : k \in {j \in 1..Len(ops) :
        ops[j].phase = DeletePhase /\ ops[j].op = "remove" /\ ops[j].res # None}}
FailedListings ==
    {ops[k].path : k \in {j \in 1..Len(ops) :
        ops[j].phase = DeletePhase /\ ops[j].op = "listdir_attr" /\ ops[j].res # None}}
Removed ==
    {ops[k].path : k \in {j \in 1..Len(ops) :
        ops[j].phase = DeletePhase /\ ops[j].op = "remove" /\ ops[j].res = None}}
AfterDeletion == pc \in {"finish", "done"}

\* C18 as stated: transport errors are counted and not fatal in every
\* phase.  When the deletion pass is over, errors is the number of requests
\* that failed since the root was ensured, every candidate was processed,
\* and (live, delete_remote set, every listing answered) the only
\* remote-only files left are those whose own remove failed.
TransportErrorsCounted ==
    AfterDeletion =>
        /\ stats.errors = Cardinality(FailedRequests)
        /\ idx = Len(files_to_sync)
        /\ (Live /\ config.delete_remote /\ FailedListings = {}) =>
              RemoteOnly(remote) \subseteq FailedRemovals

\* C19: remote enumeration degrades gracefully.  A deletion pass always
\* comes to its end; when a live one is over, no file it removed lies under
\* a directory whose listing failed, no file it removed is a candidate, and
\* (no remove having failed) the only remote-only files left lie under a
\* directory whose listing failed.
ListingFailureDegrades ==
    /\ OpsOfDelete # <<>> => AfterDeletion
    /\ (AfterDeletion /\ Live /\ config.delete_remote) =>
          /\ \A q \in Removed : \A d \in FailedListings : ~IsUnder(q, d)
          /\ \A q \in Removed :
                RelativeTo(q, config.remote_dir) \notin Range(files_to_sync)
          /\ FailedRemovals = {} =>
                \A q \in RemoteOnly(remote) : \E d \in FailedListings : IsUnder(q, d)

\* C19 witness: the listing of the remote directory d failed; c, in the
\* root, was removed and d/e was left
ListingFailureDegradesWitness ==
    /\ pc = "done" /\ Live /\ config.delete_remote
    /\ FailedListings = {R_d}
    /\ Removed = {_get_remote_path(F_c)}
    /\ _get_remote_path(F_d_e) \in DOMAIN remote
    /\ F_d_e \notin Range(files_to_sync)

(***************************************************************************)
(* Properties of an SFTPSyncer used for several runs (checked under        *)
(* SpecReuse)                                                              *)
(***************************************************************************)
\* C20 as stated: no state across runs.  Whenever sync() is about to be
\* called, the four counters are 0; and the counters a finished run reports
\* count that run's candidates only.
CountersStartAtZero ==
    /\ pc = "idle" => stats = ZeroStats
    /\ pc = "done" =>
          stats.uploaded + stats.skipped + stats.errors = Len(files_to_sync)

(***************************************************************************)
(* Frame, ordering and counting properties of one run (checked under Spec) *)
(***************************************************************************)
\* C21: one-way mirroring frame.  No step of a run, live or dry, failing or
\* not, changes a field of the configuration or anything of the local tree;
\* what the steps change is the remote filesystem and the counters.
OneWayFrame ==
    [][config' = config /\ local_tree' = local_tree /\ local_fs' = local_fs]_vars

\* C21 witness: a live run is over that changed the remote, counted an
\* upload and met a failure
OneWayFrameWitness ==
    /\ pc = "done"
    /\ Live
    /\ local_tree # <<>>
    /\ remote # remote0
    /\ stats.uploaded >= 1
    /\ stats.errors >= 1

\* what the per-file step of a candidate found up to date does
SkipOfStep(rel) ==
    /\ Len(StepOps) = 1
    /\ StepOps[1].op = "stat"
    /\ StepOps[1].path = _get_remote_path(rel)
    /\ \A k \in 1..Len(StepOps) : StepOps[k].op \notin Mutating
    /\ remote' = remote
    /\ stats' = [stats EXCEPT !.skipped = @ + 1]

\* C26: a skip leaves the remote untouched.  When the stat of a candidate
\* is answered and the remote file is not older and as large, the step
\* issues that one stat and nothing else, the remote filesystem stays as it
\* was (no .backup appears), and of the counters only skipped changes, by 1,
\* whatever backup_remote and preserve_permissions are.
SkipLeavesRemoteUntouched ==
    [][(/\ pc = "files" /\ idx' = idx + 1
        /\ StepOps[1].res = None
        /\ RemoteUpToDate(remote, files_to_sync[idx + 1]))
       => SkipOfStep(files_to_sync[idx + 1])]_vars

\* C26 witness: a live run with backup_remote and preserve_permissions has
\* skipped a candidate after one answered stat
SkipLeavesRemoteUntouchedWitness ==
    /\ InLoopOrAfter
    /\ Live /\ config.backup_remote /\ config.preserve_permissions
    /\ stats.skipped >= 1
    /\ \E i \in 1..idx :
          /\ Len(OpsOfFile(i)) = 1
          /\ OpsOfFile(i)[1].res = None
          /\ backup_path_of(_get_remote_path(files_to_sync[i])) \notin DOMAIN remote

Processed == stats.uploaded + stats.skipped + stats.errors

\* a per-file step adds 1 to exactly one of uploaded, skipped and errors
CountsOne ==
    \E f \in {"uploaded", "skipped", "errors"} :
       stats' = [stats EXCEPT ![f] = @ + 1]

\* C30: counter conservation.  From the start of the loop on,
\* uploaded + skipped + errors is the number of candidates processed so far;
\* each per-file step adds 1 to exactly one of the three and leaves the
\* other counters alone; the deletion pass changes no counter but deleted;
\* and when the run is over the three add up to the number of candidates.
CounterConservation ==
    /\ [](InLoopOrAfter => Processed = idx)
    /\ [](pc \in {"finish", "done"} => Processed = Len(files_to_sync))
    /\ [][(pc = "files" /\ idx' = idx + 1) => CountsOne]_vars
    /\ [][(pc = "files" /\ pc' = "finish")
          => stats' = [stats EXCEPT !.deleted = stats'.deleted]]_vars

\* C30 witness: a run of three candidates is over with one uploaded, one
\* skipped, one failed, and a remote-only file deleted
CounterConservationWitness ==
    /\ pc = "done"
    /\ Len(files_to_sync) = 3
    /\ stats.uploaded = 1 /\ stats.skipped = 1 /\ stats.errors = 1
    /\ stats.deleted >= 1

\* the requests of a per-file step that issued the put, in their order
OrderOfStep(rel) ==
    LET p == _get_remote_path(rel)
        s == StepOps
        n == Len(s)
        At(op) == {k \in 1..n : s[k].op = op}
        kput == CHOOSE k \in At("put") : TRUE
        backed == config.backup_remote /\ s[1].res = None
    IN /\ s[1].op = "stat" /\ s[1].path = p
       /\ At("put") = {kput} /\ s[kput].path = p
       /\ backed =>
             /\ s[3].op = "remove" /\ s[3].path = backup_path_of(p)
             /\ s[4].op = "rename" /\ s[4].path = p /\ s[4].res = None
             /\ At("remove") = {3} /\ At("rename") = {4}
             /\ \A k \in At("mkdir") \cup At("put") : k > 4
       /\ ~backed => At("remove") = {} /\ At("rename") = {}
       /\ \A k \in At("mkdir") :
             /\ k < kput
             /\ s[k].path \in AncestorsOf(p)
             /\ s[k].old = <<>>
             /\ s[k].res = None
             /\ \A j \in At("mkdir") : j < k => Len(s[j].path) < Len(s[k].path)
       /\ \A q \in AncestorsOf(p) :
             \/ IsDir(remote, q)
             \/ \E k \in At("mkdir") : s[k].path = q
       /\ s[kput].res # FileNotFoundError
       /\ IF config.preserve_permissions /\ s[kput].res = None
          THEN /\ n = kput + 1
               /\ s[n].op = "chmod" /\ s[n].path = p
               /\ s[n].res = None =>
                     remote'[p].st_mode = S_IMODE(local_stat(rel).st_mode)
          ELSE n = kput /\ At("chmod") = {}

MkdirsOf(e) == {k \in 1..Len(e.ops) : e.ops[k].op = "mkdir"}

\* the mkdirs of a call are for directories that were missing, a parent
\* before its child
MkdirsInOrder(e) ==
    \A k \in MkdirsOf(e) :
       /\ e.ops[k].path \notin DOMAIN e.before
       /\ \A j \in MkdirsOf(e) :
             e.ops[j].path \in AncestorsOf(e.ops[k].path) => j < k

\* the call changed nothing and asked for no directory to be made
NoOp(e) == MkdirsOf(e) = {} /\ e.after = e.before

\* what a call that returned leaves, a path that was there before the call
\* counting as a directory when existing is TRUE
EnsuredBy(e, existing) ==
    /\ \/ IsDir(e.after, e.arg)
       \/ existing /\ Exists(e.before, e.arg)
    /\ \A q \in AncestorsOf(e.arg) : IsDir(e.after, q)
    /\ MkdirsInOrder(e)
    /\ Exists(e.before, e.arg) => NoOp(e)

EnsureContract(existing) ==
    \A k \in 1..Len(call) :
       LET e == call[k] IN
       /\ e.arg \in {<<>>, <<".">>} => e.ops = <<>> /\ e.after = e.before
       /\ (e.arg \notin {<<>>, <<".">>} /\ e.exc = None) =>
             /\ EnsuredBy(e, existing)
             /\ (k > 1 /\ call[k - 1].arg = e.arg /\ call[k - 1].exc = None)
                   => NoOp(e)

\* C24 as stated: _ensure_remote_dir on a live syncer.  A call with "" or
\* "." issues no request and changes nothing; after any other call that
\* returned, the path and all its ancestors are directories, mkdir was
\* issued only for paths that were missing and for a parent before its
\* child, and a call on a directory that is there, or repeated after a call
\* that returned, issues no mkdir and changes nothing.
EnsureMakesDirectory == EnsureContract(FALSE)

\* the same with a path that exists taken as it is, directory or not
EnsureMakesPath == EnsureContract(TRUE)

\* two levels were made by one call and the call repeated
EnsureMakesPathWitness ==
    /\ Len(call) = 2
    /\ call[1].arg = R_d_n /\ call[2].arg = R_d_n
    /\ call[1].exc = None /\ call[2].exc = None
    /\ Cardinality(MkdirsOf(call[1])) = 2
    /\ IsDir(remote, R_d_n)

(***************************************************************************)
(* Properties of Config (checked under SpecConfig)                         *)
(***************************************************************************)
\* the rules of a valid configuration, each with the text of its message
PathThere(v) == v.given /\ v.str \in ExistingPaths
ViolatedRules(cfg) ==
    {r \in {[text |-> "Host is required", ok |-> Truthy(cfg.host)],
            [text |-> "Username is required", ok |-> Truthy(cfg.username)],
            [text |-> "Either password or private_key is required",
             ok |-> Truthy(cfg.password) \/ Truthy(cfg.private_key)],
            [text |-> "Local directory is required", ok |-> Truthy(cfg.local_dir)],
            [text |-> "Remote directory is required", ok |-> Truthy(cfg.remote_dir)],
            [text |-> "Local directory does not exist: ",
             ok |-> PathThere(cfg.local_dir)],
            [text |-> "Private key file does not exist: ",
             ok |-> Truthy(cfg.private_key) => PathThere(cfg.private_key)]} :
        ~r.ok}

ValidateAnswers(e) ==
    /\ e.exc = None
    /\ Len(e.ret) = Cardinality(ViolatedRules(e.self))
    /\ {e.ret[i].text : i \in 1..Len(e.ret)} = {r.text : r \in ViolatedRules(e.self)}
    /\ e.ret = <<>> <=> ViolatedRules(e.self) = {}
    /\ config = e.self

\* C22 as stated: Config.validate.  Every call returns a list holding one
\* message for each violated rule and nothing else, so the empty list
\* exactly when host and username are non-empty, a password or a
\* private_key is given, local_dir and remote_dir are non-empty, local_dir
\* exists and a given private_key exists; and the configuration is after
\* the call what it was before.
ValidateListsViolatedRules ==
    \A k \in 1..Len(call) : call[k].fn = "validate" => ValidateAnswers(call[k])

\* the same for the configurations whose local_dir is a string
ValidateListsViolatedRulesOfStrings ==
    \A k \in 1..Len(call) :
       (call[k].fn = "validate" /\ call[k].self.local_dir.given)
          => ValidateAnswers(call[k])

StringKeys == {"host", "username", "password", "private_key", "local_dir", "remote_dir"}
NonEmptyPasswords == {Str(S_pw), Str(S_pw2), Str(<<"q">>)}

\* C23: to_dict never discloses the password.  In the result of every call
\* the "password" entry is "***" if the password is a non-empty string and
\* None otherwise; there is no private_key_password entry and no entry
\* holds its value; and the result is the one to_dict gives for the same
\* configuration with any other non-empty password.
PasswordMasked ==
    \A k \in 1..Len(call) :
       call[k].fn = "to_dict" =>
          LET self == call[k].self
              d == call[k].ret
          IN /\ d.password = IF Truthy(self.password) THEN Masked ELSE Absent
             /\ "private_key_password" \notin DOMAIN d
             /\ Truthy(self.private_key_password) =>
                   \A key \in StringKeys : d[key] # self.private_key_password
             /\ Truthy(self.password) =>
                   \A p \in NonEmptyPasswords :
                      to_dict([self EXCEPT !.password = p]) = d

\* C23 witness: to_dict was called on a configuration with a password and a
\* private_key_password, and on its result the password entry is masked
PasswordMaskedWitness ==
    \E k \in 1..Len(call) :
       /\ call[k].fn = "to_dict"
       /\ call[k].self.password = Str(S_pw)
       /\ call[k].self.private_key_password = Str(S_keypw)
       /\ call[k].ret.password = Masked
       /\ call[k].ret.host = Str(<<"h">>)

(***************************************************************************)
(* Shell-glob reference for the matcher (checked under SpecFilter)         *)
(***************************************************************************)
\* a glob in which "*" and "?" match no separator
RECURSIVE GlobWithinSegment(_, _)
GlobWithinSegment(name, pat) ==
    IF pat = <<>> THEN name = <<>>
    ELSE IF Head(pat) = "*"
         THEN \/ GlobWithinSegment(name, Tail(pat))
              \/ /\ name # <<>> /\ Head(name) # "/"
                 /\ GlobWithinSegment(Tail(name), pat)
    ELSE IF Head(pat) = "?"
         THEN /\ name # <<>> /\ Head(name) # "/"
              /\ GlobWithinSegment(Tail(name), Tail(pat))
    ELSE /\ name # <<>> /\ Head(name) = Head(pat)
         /\ GlobWithinSegment(Tail(name), Tail(pat))

\* the three checks (full path, suffix, ancestor) made with that glob
SegmentWise(p, pat) ==
    \E q \in {p} \cup SuffixesOf(p) \cup AncestorsOf(p) : GlobWithinSegment(q, pat)

\* the decision of should_include made with that glob
SegmentWiseDecision(self, p) ==
    IF \E k \in 1..Len(self.exclude_patterns) : SegmentWise(p, self.exclude_patterns[k])
    THEN FALSE
    ELSE IF \E k \in 1..Len(self.include_patterns) :
                SegmentWise(p, self.include_patterns[k])
    THEN TRUE
    ELSE self.include_patterns \in {<<>>, <<Star>>}

\* C27 as stated: glob semantics of the matcher.  For every path and every
\* filter, should_include returns what the three checks give when "*"
\* matches only within a path segment and "?" one character that is no
\* separator.
GlobWithinSegments ==
    FilterCalled => Returned = SegmentWiseDecision(flt, flt_path)

(***************************************************************************)
(* Properties of the task registry (checked under SpecTasks, SpecTasksLive)*)
(***************************************************************************)
Terminal == {"completed", "failed"}
StatusMoves ==
    {<<"pending", "running">>, <<"running", "completed">>, <<"running", "failed">>}

\* the background calls for a task id that have not returned
RunningFor(task_id) == {i \in 1..Len(bg) : bg[i].task_id = task_id /\ bg[i].at # 0}
AllReturned == \A i \in 1..Len(bg) : bg[i].at = 0

\* C28 as stated: the status lifecycle of every record.  Under every
\* interleaving of start_sync requests and background calls, a step that
\* changes the status of a record moves it pending -> running,
\* running -> completed or running -> failed; and the status, stats and
\* error of a record that is completed or failed, the call that ended it
\* having returned, are never changed again.
TaskLifecycle ==
    [][\A id \in DOMAIN sync_tasks :
          LET a == sync_tasks[id]
              b == sync_tasks'[id]
          IN /\ a.status # b.status => <<a.status, b.status>> \in StatusMoves
             /\ (a.status \in Terminal /\ RunningFor(id) = {}) =>
                   /\ b.status = a.status
                   /\ b.stats = a.stats
                   /\ b.error = a.error]_vars

\* C29 as stated: task completion.  Every task that start_sync has created
\* is in the end completed or failed and stays so; and once the background
\* calls have returned, a completed record has its stats and completed_at
\* and no error, and a failed record has its error and completed_at.
TaskCompletes ==
    /\ \A id \in 0..MaxClock :
          [](id \in DOMAIN sync_tasks =>
                <>[](id \in DOMAIN sync_tasks
                     /\ sync_tasks[id].status \in Terminal))
    /\ [](AllReturned =>
            \A id \in DOMAIN sync_tasks :
               LET t == sync_tasks[id] IN
               /\ t.status = "completed" =>
                     t.stats # <<>> /\ t.completed_at # NoTime /\ t.error = <<>>
               /\ t.status = "failed" =>
                     t.error # <<>> /\ t.completed_at # NoTime)

\* no two requests came in within the same second
DistinctIds == \A i, j \in 1..Len(bg) : bg[i].task_id = bg[j].task_id => i = j

\* the request whose record is stored under a task id: the last that stored it
OwnerOf(task_id) ==
    CHOOSE i \in 1..Len(bg) :
       /\ bg[i].task_id = task_id
       /\ \A j \in 1..Len(bg) : bg[j].task_id = task_id => j <= i

\* C37 as stated: task identity.  Every start_sync stores its record under
\* an id that no record has yet, so no two requests have the same task_id
\* and no record is overwritten by a start; and a background call changes
\* only the record that its own request stored.
TaskIdentity ==
    /\ []DistinctIds
    /\ [][Len(bg') = Len(bg) + 1 =>
             /\ bg'[Len(bg')].task_id \notin DOMAIN sync_tasks
             /\ \A id \in DOMAIN sync_tasks : sync_tasks'[id] = sync_tasks[id]]_vars
    /\ [][Len(bg') = Len(bg) =>
             \A id \in DOMAIN sync_tasks :
                sync_tasks'[id] # sync_tasks[id] =>
                   bg'[OwnerOf(id)].at # bg[OwnerOf(id)].at]_vars

(***************************************************************************)
(* The session of a run (checked under Spec)                               *)
(***************************************************************************)
Disconnects == {k \in 1..Len(ops) : ops[k].op = "disconnect"}
RunOver == pc \in {"done", "failed"}

\* C36: session release.  When sync() is over, however it ended (normally,
\* with per-file or deletion errors, on a failed connection or a failed
\* root), disconnect has been called exactly once and nothing was requested
\* after it; while sync() is under way disconnect has not been called.
SessionRelease ==
    /\ RunOver => Disconnects = {Len(ops)} /\ Len(ops) >= 1
    /\ ~RunOver => Disconnects = {}

\* C36 witness: a run that ended because the root could not be ensured has
\* closed its session after the failed request
SessionReleaseWitness ==
    /\ pc = "failed"
    /\ Len(ops) >= 2
    /\ ops[Len(ops) - 1].res = IOError
    /\ ops[Len(ops)].op = "disconnect"

(***************************************************************************)
(* What the counters and the remote say after a run (checked under Spec)   *)
(***************************************************************************)
PutDone == {i \in 1..idx : Succeeded(i, "put")}
RemovesDone ==
    {k \in 1..Len(ops) :
        ops[k].phase = DeletePhase /\ ops[k].op = "remove" /\ ops[k].res = None}

\* C31 as stated: the counters reflect what happened on the remote.  In a
\* live run, from the loop on, uploaded is the number of candidates whose
\* put succeeded, deleted the number of removes of the deletion pass that
\* succeeded, and no candidate whose put succeeded is among those counted
\* in errors.
CountersReflectRemote ==
    (Live /\ InLoopOrAfter) =>
        /\ stats.uploaded = Cardinality(PutDone)
        /\ stats.deleted = Cardinality(RemovesDone)
        /\ \A i \in PutDone : ~Failing(i)

\* the same for the runs in which no chmod fails
CountersReflectRemoteButChmod ==
    (\A k \in 1..Len(ops) : ~(ops[k].op = "chmod" /\ ops[k].res # None))
       => CountersReflectRemote

\* the content a remote path held when the run began is still at the path
\* or at its backup path
KeptAt(p) ==
    \E q \in {p, backup_path_of(p)} :
       q \in DOMAIN remote /\ remote[q].data = remote0[p].data

\* C32 as stated: no loss of remote content on a failed upload.  When a live
\* run is over, for every candidate whose step failed without its put having
\* succeeded and whose remote path held a file when the run began, the
\* content of that file is on the
\* remote, at the path or at <path>.backup, whatever backup_remote and
\* delete_remote are.
FailedUploadKeepsContent ==
    (pc = "done" /\ Live) =>
        \A i \in 1..Len(files_to_sync) :
           LET p == _get_remote_path(files_to_sync[i]) IN
           (/\ Failing(i) /\ ~Succeeded(i, "put")
            /\ p \in DOMAIN remote0 /\ ~remote0[p].isdir) => KeptAt(p)

\* the same for the runs that do not delete and have no candidate named
\* like the backup of another
FailedUploadKeepsContentPlain ==
    (/\ ~config.delete_remote
     /\ \A i, j \in 1..Len(files_to_sync) :
           files_to_sync[j] # backup_path_of(files_to_sync[i]))
       => FailedUploadKeepsContent

\* the remote copy of a candidate is a file as large as the local one
MirroredAt(rel) ==
    LET p == _get_remote_path(rel) IN
    /\ p \in DOMAIN remote
    /\ ~remote[p].isdir
    /\ remote[p].st_size = local_stat(rel).st_size

\* C33 as stated: the mirror postcondition.  When a live run is over with
\* errors = 0, every candidate is on the remote as a file of the size of
\* the local file, whatever the candidates (names ending in .backup among
\* them), their order, the remote at the start, backup_remote and
\* delete_remote.
MirrorPostcondition ==
    (pc = "done" /\ Live /\ stats.errors = 0) =>
        \A i \in 1..Len(files_to_sync) : MirroredAt(files_to_sync[i])

\* the same for the runs without backups, or with no candidate named like
\* the backup of another
MirrorPostconditionPlain ==
    (\/ ~config.backup_remote
     \/ \A i, j \in 1..Len(files_to_sync) :
           files_to_sync[j] # backup_path_of(files_to_sync[i]))
       => MirrorPostcondition

(***************************************************************************)
(* A run over an enumerated tree whose files are all on the remote already *)
(* (SpecMirror): the enumeration, the loop, the deletion pass, the end     *)
(***************************************************************************)
\* the remote after an earlier mirror of the whole tree: every regular file
\* under the local root, as large and as old as the local file
MirrorOf(rels) ==
    LET files == {os_path_join(R_root, rel) : rel \in rels}
        dirs == {R_root} \cup UNION {AncestorsOf(p) : p \in files}
    IN [q \in files \cup dirs |->
           IF q \in dirs THEN Dir
           ELSE RemoteFile(RelativeTo(q, R_root),
                           local_stat(RelativeTo(q, R_root)).st_size,
                           local_stat(RelativeTo(q, R_root)).st_mtime)]

InitMirror ==
    /\ config \in {[c EXCEPT !.delete_remote = TRUE] :
                     c \in {w \in WalkConfigs : ~w.follow_symlinks}}
    /\ flt = FileFilter(List(config.include_patterns), List(config.exclude_patterns))
    /\ flt_args = <<List(config.include_patterns), List(config.exclude_patterns)>>
    /\ flt_path = <<>>
    /\ flt_result = NoResult
    /\ local_fs \in {Tree_plain, Tree_mid}
    /\ wpc = "walk"
    /\ walk_stack = <<[path |-> <<>>, ino |-> RootIno]>>
    /\ visited_inodes = {}
    /\ walk_files = <<>>
    /\ warnings = <<>>
    /\ traversed = <<>>
    /\ NoRest
    /\ stats = ZeroStats
    /\ pc = "idle"
    /\ local_tree = <<>>
    /\ files_to_sync = <<>>
    /\ idx = 0
    /\ remote = MirrorOf(RegularFilesUnder(RootIno, <<>>))
    /\ now = MaxTime
    /\ ops = <<>>
    /\ run = 0
    /\ remote0 = remote
    /\ reports = <<>>
    /\ budget = 0

\* sync() with the candidates of the enumeration: the root was ensured
\* before the enumeration and the loop begins
SyncWalked ==
    /\ wpc = "done"
    /\ pc = "idle"
    /\ \E c \in {_ensure_remote_dir(Ctx(<<"root">>, {}), config.remote_dir)} :
         /\ c.exc = None
         /\ remote' = c.fs
         /\ ops' = c.ops
    /\ pc' = "files"
    /\ idx' = 0
    /\ run' = run + 1
    /\ UNCHANGED <<config, stats, files_to_sync, now, budget, remote0, reports,
                   local_tree, filterVars, walkVars, restVars>>

NextMirror ==
    \/ WalkStep
    \/ WalkFilter
    \/ SyncWalked
    \/ SyncFileStep
    \/ SyncDeleteStep
    \/ SyncFinish

SpecMirror == InitMirror /\ [][NextMirror]_vars

\* the relative paths the deletion pass has removed
RemovedRels ==
    {RelativeTo(ops[k].path, config.remote_dir) :
        k \in {j \in 1..Len(ops) :
                  /\ ops[j].phase = DeletePhase
                  /\ ops[j].op = "remove"
                  /\ ops[j].res = None}}

\* C34 as stated: deletion never removes a mirrored file that is still
\* there locally.  With delete_remote, the deletion pass removes no remote
\* file whose relative path is that of a regular local file that
\* should_include accepts, whatever the patterns and the nesting.
DeletionSparesLocalFiles ==
    \A rel \in RemovedRels :
       ~(rel \in RegularFilesUnder(RootIno, <<>>) /\ should_include(flt, rel))

\* the deletion pass removes no candidate
DeletionSparesCandidates ==
    \A rel \in RemovedRels : rel \notin Range(files_to_sync)

(***************************************************************************)
(* Containment of the candidates (checked under SpecWalk)                  *)
(***************************************************************************)
\* C35 as stated: containment of every candidate.  When the enumeration is
\* done, with follow_symlinks on or off, no candidate is a symlink to a file
\* whose real path is outside the real path of the local root (every
\* directory of the trees, also one reached through a symlink, is inside).
CandidatesInsideRoot ==
    WalkDone =>
        \A k \in 1..Len(files_to_sync) :
            OutsideRoot(EntryAt(RootIno, split(files_to_sync[k], "/")).real) =>
                EntryAt(RootIno, split(files_to_sync[k], "/")).kind # "filelink"

\* the same for the links whose real path does not begin with the root's
FarLinksKeptOutWhenFollowing ==
    (WalkDone /\ config.follow_symlinks) =>
        \A k \in 1..Len(files_to_sync) :
            LET e == EntryAt(RootIno, split(files_to_sync[k], "/"))
            IN ~(e.kind = "filelink" /\ ~startswith(e.real, LocalRoot))

=============================================================================
